---- MODULE Spec2Model ----
(***************************************************************************)
(* The image-analysis core of rl-chat-app: the analyzers of                *)
(* services/image-analysis/analyzers.ts, the diagram builder of            *)
(* visualization.ts and the processImage pipeline of the image processor;  *)
(* then the provider module services/ai-providers.ts, the settings form    *)
(* ApiKeyInput and the submit path of ChatInput and App.                   *)
(*                                                                         *)
(* JavaScript numbers that are quotients of integers are kept as exact     *)
(* fractions [n, d]; 0/0 is NaN and n/0 (n > 0) is +Infinity, as in JS.    *)
(* Strings the code searches in (colour keys) are sequences of characters. *)
(***************************************************************************)
EXTENDS Integers, Sequences, FiniteSets, TLC

\* ------------------------------------------------------------------ bounds
\* Largest number of pixels (width * height) of an analysed image.
MaxPixels == 4
\* Largest number of pixels of an image in the runs that analyse several
\* images in a row, and of an image decoded in the processImage pipeline.
MaxSmallPixels == 2
\* Largest number of analyzer invocations in one repeated-invocation run.
MaxCalls == 3
\* Largest width and height of an image in the runs on images that have
\* interior 3x3 blocks.
MaxSide == 5
\* Longest contentType string handed to generateMermaidDiagram on its own.
MaxLen == 2
MaxRequests == 2
MaxInits == 2

\* ------------------------------------------------------- JavaScript numbers
Frac(n, d) == [n |-> n, d |-> d]
IsNaN(x) == x.d = 0 /\ x.n = 0
\* x < y on JS numbers (all values here are >= 0, NaN or +Infinity)
JsLess(x, y) ==
  /\ ~IsNaN(x)
  /\ ~IsNaN(y)
  /\ x.d # 0
  /\ (y.d = 0 \/ x.n * y.d < y.n * x.d)
JsGreater(x, y) == JsLess(y, x)

Abs(i) == IF i < 0 THEN -i ELSE i
Min(a, b) == IF a < b THEN a ELSE b

\* --------------------------------------------------------------- strings
DigitChars == <<"0", "1", "2", "3", "4", "5", "6", "7", "8", "9">>

\* String(n) for an integer n >= 0, as a sequence of characters
RECURSIVE NumberToString(_)
NumberToString(n) ==
  IF n < 10 THEN <<DigitChars[n + 1]>>
  ELSE NumberToString(n \div 10) \o <<DigitChars[(n % 10) + 1]>>

\* String.prototype.includes
Includes(s, sub) ==
  \E i \in 0..(Len(s) - Len(sub)) : SubSeq(s, i + 1, i + Len(sub)) = sub

\* Array.prototype.join(', ') over character sequences
RECURSIVE Join(_)
Join(keys) ==
  IF keys = <<>> THEN <<>>
  ELSE IF Len(keys) = 1 THEN keys[1]
  ELSE keys[1] \o <<",", " ">> \o Join(Tail(keys))

\* ----------------------------------------------------------------- pixels
\* A pixel is <<r, g, b, a>>, each channel in 0..255.
Black == <<0, 0, 0, 255>>
White == <<255, 255, 255, 255>>
Red == <<255, 0, 0, 255>>
LightPink == <<255, 192, 192, 255>>
\* alpha exactly at the threshold: counted
Grey == <<128, 128, 128, 128>>
\* alpha just below the threshold: skipped
Clear == <<255, 255, 255, 127>>

Palette == {Black, White, Red, LightPink, Grey, Clear}
\* alpha 0
Transparent == <<0, 0, 0, 0>>
TransparentRed == <<255, 0, 0, 0>>
\* brightness 98/3 and 248/3: 50 apart, each rounded as a double
Dim == <<32, 33, 33, 255>>
Lit == <<82, 83, 83, 255>>
\* brightness 50, 50 above black's
Fifty == <<50, 50, 50, 255>>
EdgePalette == {Black, White, Dim, Lit, Fifty}
\* skipped and counted pixels, for analyzeColors on its own
AlphaPalette == {Black, White, Clear, Transparent, TransparentRed}
SmallPalette == {Black, White, LightPink, Clear}

\* the flat RGBA buffer (ImageData.data) of a sequence of pixels
RECURSIVE Flatten(_)
Flatten(pixels) ==
  IF pixels = <<>> THEN <<>> ELSE Head(pixels) \o Flatten(Tail(pixels))

Dimensions(maxPixels) ==
  {wh \in (0..maxPixels) \X (0..maxPixels) : wh[1] * wh[2] <= maxPixels}

\* the canvases of at most maxPixels pixels drawn from palette
Canvases(palette, maxPixels) ==
  UNION {
    {[width |-> wh[1], height |-> wh[2], data |-> Flatten(px)] :
       px \in [1..(wh[1] * wh[2]) -> palette]} :
    wh \in Dimensions(maxPixels)}

\* every pixel of the canvas is p
Uniform(width, height, p) ==
  [width |-> width, height |-> height,
   data |-> Flatten([i \in 1..(width * height) |-> p])]

\* every pixel has the RGB of p, every other one alpha 0
Striped(width, height, p) ==
  [width |-> width, height |-> height,
   data |-> Flatten([i \in 1..(width * height) |->
                       IF i % 2 = 0 THEN <<p[1], p[2], p[3], 0>> ELSE p])]

\* a mid grey, a pixel within 20 of it in every channel (at 20 in two of
\* them) and one 21 away in one channel
Mid == <<100, 100, 100, 255>>
Near == <<120, 80, 100, 255>>
Far == <<100, 121, 100, 255>>

\* the canvas of Mid pixels but for pixel a, which is p, and pixel b, which is q
TwoOdd(width, height, a, p, b, q) ==
  [width |-> width, height |-> height,
   data |-> Flatten([i \in 1..(width * height) |->
                       IF i = b THEN q ELSE IF i = a THEN p ELSE Mid])]

\* canvases of 3..MaxSide pixels a side: of one RGB value throughout, and
\* mid grey with up to two pixels that differ
LargeCanvases ==
  UNION {
    {Uniform(wh[1], wh[2], p) : p \in Palette}
    \cup {Striped(wh[1], wh[2], p) : p \in Palette}
    \cup {TwoOdd(wh[1], wh[2], a, p, b, q) :
            a \in 1..(wh[1] * wh[2]), b \in 1..(wh[1] * wh[2]),
            p \in {Mid, Near, Far}, q \in {Mid, Near, Far}} :
    wh \in (3..MaxSide) \X (3..MaxSide)}

\* ctx.getImageData(x, y, 1, 1).data
PixelAt(ctx, x, y) ==
  LET i == 4 * (y * ctx.width + x)
  IN <<ctx.data[i + 1], ctx.data[i + 2], ctx.data[i + 3], ctx.data[i + 4]>>

\* ----------------------------------------------------------- analyzeColors
\* Math.round(c / 32) * 32 (Math.round rounds a half up)
Quantize(c) == ((c + 16) \div 32) * 32

\* `rgb(${...},${...},${...})`
QuantizedColor(r, g, b) ==
  <<"r", "g", "b", "(">> \o NumberToString(Quantize(r)) \o <<",">>
    \o NumberToString(Quantize(g)) \o <<",">>
    \o NumberToString(Quantize(b)) \o <<")">>

\* colorCounts[key] = (colorCounts[key] || 0) + 1; colorCounts is a sequence
\* of [key, count] in insertion order, the order Object.entries lists it in
Increment(colorCounts, key) ==
  IF \E k \in 1..Len(colorCounts) : colorCounts[k].key = key
  THEN [k \in 1..Len(colorCounts) |->
          IF colorCounts[k].key = key
          THEN [key |-> key, count |-> colorCounts[k].count + 1]
          ELSE colorCounts[k]]
  ELSE Append(colorCounts, [key |-> key, count |-> 1])

\* the locals of analyzeColors on entry; brightness is kept in thirds
\* (the sum of r + g + b, the code's sum being a third of it)
ColorLocals ==
  [colorCounts |-> <<>>, brightness |-> 0, darkPixels |-> 0, lightPixels |-> 0]

SkipsFullyTransparent(a) == a = 0
\* if (a < 128) continue
Skips(a) == a < 128

\* the for loop of analyzeColors, from byte offset i
RECURSIVE ColorLoop(_, _, _)
ColorLoop(data, i, acc) ==
  IF i >= Len(data) THEN acc
  ELSE
    LET r == data[i + 1]
        g == data[i + 2]
        b == data[i + 3]
        a == data[i + 4]
        pixelBrightness == r + g + b
    IN IF Skips(a) THEN ColorLoop(data, i + 4, acc)
       ELSE ColorLoop(data, i + 4,
              [colorCounts |-> Increment(acc.colorCounts, QuantizedColor(r, g, b)),
               brightness |-> acc.brightness + pixelBrightness,
               darkPixels |-> acc.darkPixels + (IF pixelBrightness < 3 * 85 THEN 1 ELSE 0),
               lightPixels |-> acc.lightPixels + (IF pixelBrightness > 3 * 170 THEN 1 ELSE 0)])

\* entries.sort(([,a], [,b]) => b - a): stable, descending by count
RECURSIVE SortByCount(_)
SortByCount(entries) ==
  IF entries = <<>> THEN <<>>
  ELSE
    LET sorted == SortByCount(SubSeq(entries, 1, Len(entries) - 1))
        e == entries[Len(entries)]
        \* e goes after every entry whose count is at least its own
        pos == Cardinality({k \in 1..Len(sorted) : sorted[k].count >= e.count})
    IN SubSeq(sorted, 1, pos) \o <<e>> \o SubSeq(sorted, pos + 1, Len(sorted))

DominantColorsUnsorted(colorCounts) ==
  [k \in 1..Min(3, Len(colorCounts)) |-> colorCounts[k].key]
\* .slice(0, 3).map(([color]) => color)
DominantColors(colorCounts) ==
  LET sorted == SortByCount(colorCounts)
  IN [k \in 1..Min(3, Len(sorted)) |-> sorted[k].key]

BrightnessNoScale(sum, totalPixels) == Frac(sum, 3 * totalPixels)
\* brightness / totalPixels / 255, the sum being in thirds
NormalizedBrightness(sum, totalPixels) == Frac(sum, 3 * totalPixels * 255)

ColorReturnSwapped(acc, totalPixels) ==
  [dominantColors |-> DominantColors(acc.colorCounts),
   darkRatio |-> Frac(acc.lightPixels, totalPixels),
   lightRatio |-> Frac(acc.darkPixels, totalPixels),
   brightness |-> NormalizedBrightness(acc.brightness, totalPixels)]
\* the return statement of analyzeColors
ColorReturn(acc, totalPixels) ==
  [dominantColors |-> DominantColors(acc.colorCounts),
   darkRatio |-> Frac(acc.darkPixels, totalPixels),
   lightRatio |-> Frac(acc.lightPixels, totalPixels),
   brightness |-> NormalizedBrightness(acc.brightness, totalPixels)]

analyzeColors(data, totalPixels) ==
  ColorReturn(ColorLoop(data, 0, ColorLocals), totalPixels)

\* ------------------------------------------------------------ analyzeEdges
\* The lower of two channel sums a, a + 150 for which the IEEE-754 doubles
\* a/3 and (a + 150)/3 differ by more than 50 (by 50.00000000000001).
RoundsAbove50 ==
  {44, 47} \cup {98 + 3 * k : k \in 0..31} \cup {235 + 3 * k : k \in 0..49}

\* Math.abs(a/3 - b/3) > 50 on doubles, a and b being sums r + g + b
DiffAbove50(a, b) ==
  \/ Abs(a - b) > 3 * 50
  \/ Abs(a - b) = 3 * 50 /\ Min(a, b) \in RoundsAbove50

ChannelSumWithAlpha(px) == px[1] + px[2] + px[3] + px[4]
\* current[0] + current[1] + current[2], the brightness in thirds
ChannelSum(px) == px[1] + px[2] + px[3]

EdgeLocals == [horizontalEdges |-> 0, verticalEdges |-> 0, rectangularShapes |-> 0]

\* the nested for loops of analyzeEdges, from pixel (x, y)
RECURSIVE EdgeLoop(_, _, _, _, _, _)
EdgeLoop(ctx, width, height, x, y, acc) ==
  IF y >= height THEN acc
  ELSE IF x >= width THEN EdgeLoop(ctx, width, height, 1, y + 1, acc)
  ELSE
    LET currentBrightness == ChannelSum(PixelAt(ctx, x, y))
        leftBrightness == ChannelSum(PixelAt(ctx, x - 1, y))
        topBrightness == ChannelSum(PixelAt(ctx, x, y - 1))
        horizontal == DiffAbove50(currentBrightness, leftBrightness)
        vertical == DiffAbove50(currentBrightness, topBrightness)
    IN EdgeLoop(ctx, width, height, x + 1, y,
         [horizontalEdges |-> acc.horizontalEdges + (IF horizontal THEN 1 ELSE 0),
          verticalEdges |-> acc.verticalEdges + (IF vertical THEN 1 ELSE 0),
          rectangularShapes |->
            acc.rectangularShapes + (IF horizontal /\ vertical THEN 1 ELSE 0)])

\* the return statement of analyzeEdges
EdgeReturn(acc, width, height) ==
  [horizontalEdges |-> acc.horizontalEdges,
   verticalEdges |-> acc.verticalEdges,
   normalizedEdges |-> Frac(acc.horizontalEdges + acc.verticalEdges, width * height),
   rectangularShapes |-> acc.rectangularShapes]

analyzeEdges(ctx, width, height) ==
  EdgeReturn(EdgeLoop(ctx, width, height, 1, 1, EdgeLocals), width, height)

\* --------------------------------------------------------- analyzePatterns
Block3Shifted(ctx, sx, sy) ==
  Flatten([k \in 1..9 |-> PixelAt(ctx, sx + 1 + ((k - 1) % 3), sy + 1 + ((k - 1) \div 3))])
\* ctx.getImageData(sx, sy, 3, 3).data: the block's pixels in row-major order
Block3(ctx, sx, sy) ==
  Flatten([k \in 1..9 |-> PixelAt(ctx, sx + ((k - 1) % 3), sy + ((k - 1) \div 3))])

\* the inner for loop of analyzePatterns from offset p, with its break
RECURSIVE IsRegular(_, _, _)
IsRegular(pattern, current, p) ==
  IF p >= Len(pattern) THEN TRUE
  ELSE IF \/ Abs(pattern[p + 1] - current[1]) > 20
          \/ Abs(pattern[p + 2] - current[2]) > 20
          \/ Abs(pattern[p + 3] - current[3]) > 20
       THEN FALSE
       ELSE IsRegular(pattern, current, p + 4)

PatternLocals == [regularPatterns |-> 0]

PatternReturnScanned(acc, width, height) ==
  [regularPatterns |-> acc.regularPatterns, totalPixels |-> (width - 3) * (height - 3)]

\* the nested for loops of analyzePatterns, from pixel (x, y)
RECURSIVE PatternLoop(_, _, _, _, _, _)
PatternLoop(ctx, width, height, x, y, acc) ==
  IF y >= height THEN acc
  ELSE IF x >= width THEN PatternLoop(ctx, width, height, 3, y + 1, acc)
  ELSE
    LET pattern == Block3(ctx, x - 3, y - 3)
        current == PixelAt(ctx, x, y)
    IN PatternLoop(ctx, width, height, x + 1, y,
         [regularPatterns |->
            acc.regularPatterns + (IF IsRegular(pattern, current, 0) THEN 1 ELSE 0)])

\* the return statement of analyzePatterns
PatternReturn(acc, width, height) ==
  [regularPatterns |-> acc.regularPatterns, totalPixels |-> width * height]

analyzePatterns(ctx, width, height) ==
  PatternReturn(PatternLoop(ctx, width, height, 3, 3, PatternLocals), width, height)

\* ---------------------------------------------------------- analyzeContent
Unknown ==
  <<"U", "n", "k", "n", "o", "w", "n">>
UserInterface ==
  <<"U", "s", "e", "r", " ", "I", "n", "t", "e", "r", "f", "a", "c", "e">>
ErrorScreenSuffix ==
  <<" ", "(", "E", "r", "r", "o", "r", " ", "S", "c", "r", "e", "e", "n", ")">>
DarkThemeSuffix ==
  <<" ", "(", "D", "a", "r", "k", " ", "T", "h", "e", "m", "e", ")">>
LightThemeSuffix ==
  <<" ", "(", "L", "i", "g", "h", "t", " ", "T", "h", "e", "m", "e", ")">>
DocumentOrText ==
  <<"D", "o", "c", "u", "m", "e", "n", "t", " ", "o", "r", " ", "T", "e", "x", "t",
    " ", "C", "o", "n", "t", "e", "n", "t">>
SimpleGraphic ==
  <<"S", "i", "m", "p", "l", "e", " ", "G", "r", "a", "p", "h", "i", "c", " ", "o",
    "r", " ", "I", "c", "o", "n">>
ComplexImage ==
  <<"C", "o", "m", "p", "l", "e", "x", " ", "I", "m", "a", "g", "e", " ", "o", "r",
    " ", "P", "h", "o", "t", "o">>
\* 'rgb(255,0,0)'
PureRedKey ==
  <<"r", "g", "b", "(", "2", "5", "5", ",", "0", ",", "0", ")">>
\* 'rgb(255,192,192)'
LightPinkKey ==
  <<"r", "g", "b", "(", "2", "5", "5", ",", "1", "9", "2", ",", "1", "9", "2", ")">>

IsUIScreenAtLeast(rectangularShapes, regularPatterns, totalPixels) ==
  /\ 100 * rectangularShapes >= totalPixels
  /\ 10 * regularPatterns >= totalPixels
\* rectangularShapes > totalPixels * 0.01 && regularPatterns > totalPixels * 0.1
IsUIScreen(rectangularShapes, regularPatterns, totalPixels) ==
  /\ 100 * rectangularShapes > totalPixels
  /\ 10 * regularPatterns > totalPixels

\* horizontalEdges > verticalEdges * 1.5 && normalizedEdges > 0.1
HasText(horizontalEdges, verticalEdges, normalizedEdges) ==
  /\ 2 * horizontalEdges > 3 * verticalEdges
  /\ JsGreater(normalizedEdges, Frac(1, 10))

\* darkRatio < 0.2 && lightRatio > 0.6 && dominantColors.some(...)
IsErrorScreen(darkRatio, lightRatio, dominantColors) ==
  /\ JsLess(darkRatio, Frac(2, 10))
  /\ JsGreater(lightRatio, Frac(6, 10))
  /\ \E k \in 1..Len(dominantColors) :
       \/ Includes(dominantColors[k], PureRedKey)
       \/ Includes(dominantColors[k], LightPinkKey)

IsDarkMode(darkRatio) == JsGreater(darkRatio, Frac(7, 10))
IsLightModeAbove20(lightRatio) == JsGreater(lightRatio, Frac(2, 10))
IsLightMode(lightRatio) == JsGreater(lightRatio, Frac(7, 10))

SuffixThemeFirst(isErrorScreen, isDarkMode, isLightMode) ==
  IF isDarkMode THEN DarkThemeSuffix
  ELSE IF isLightMode THEN LightThemeSuffix
  ELSE IF isErrorScreen THEN ErrorScreenSuffix
  ELSE <<>>
\* the suffix appended to 'User Interface'
Suffix(isErrorScreen, isDarkMode, isLightMode) ==
  IF isErrorScreen THEN ErrorScreenSuffix
  ELSE IF isDarkMode THEN DarkThemeSuffix
  ELSE IF isLightMode THEN LightThemeSuffix
  ELSE <<>>

ContentTypeTextFirst(isUIScreen, hasText, normalizedEdges, suffix) ==
  IF hasText /\ JsGreater(normalizedEdges, Frac(2, 10)) THEN DocumentOrText
  ELSE IF isUIScreen THEN UserInterface \o suffix
  ELSE IF JsLess(normalizedEdges, Frac(5, 100)) THEN SimpleGraphic
  ELSE ComplexImage
\* the if / else-if chain that assigns contentType
ContentType(isUIScreen, hasText, normalizedEdges, suffix) ==
  IF isUIScreen THEN UserInterface \o suffix
  ELSE IF hasText /\ JsGreater(normalizedEdges, Frac(2, 10)) THEN DocumentOrText
  ELSE IF JsLess(normalizedEdges, Frac(5, 100)) THEN SimpleGraphic
  ELSE ComplexImage

analyzeContent(colorAnalysis, edgeAnalysis, patternAnalysis) ==
  LET isUIScreen == IsUIScreen(edgeAnalysis.rectangularShapes,
                               patternAnalysis.regularPatterns,
                               patternAnalysis.totalPixels)
      hasText == HasText(edgeAnalysis.horizontalEdges, edgeAnalysis.verticalEdges,
                         edgeAnalysis.normalizedEdges)
      isErrorScreen == IsErrorScreen(colorAnalysis.darkRatio, colorAnalysis.lightRatio,
                                     colorAnalysis.dominantColors)
      isDarkMode == IsDarkMode(colorAnalysis.darkRatio)
      isLightMode == IsLightMode(colorAnalysis.lightRatio)
  IN [isUIScreen |-> isUIScreen,
      hasText |-> hasText,
      isErrorScreen |-> isErrorScreen,
      isDarkMode |-> isDarkMode,
      isLightMode |-> isLightMode,
      contentType |-> ContentType(isUIScreen, hasText, edgeAnalysis.normalizedEdges,
                                  Suffix(isErrorScreen, isDarkMode, isLightMode))]

\* ------------------------------------------------------------ report text
Pow10(f) == IF f = 0 THEN 1 ELSE IF f = 1 THEN 10 ELSE 100

\* the f digits after the decimal point of n / 10^f
FractionDigits(n, f) ==
  IF f = 0 THEN <<>>
  ELSE IF f = 1 THEN <<".">> \o NumberToString(n % 10)
  ELSE <<".">> \o NumberToString((n \div 10) % 10) \o NumberToString(n % 10)

\* (x * 100).toFixed(f) for f in 0..2: the nearest multiple of 10^-f, a tie
\* going up
PercentToFixed(x, f) ==
  IF IsNaN(x) THEN <<"N", "a", "N">>
  ELSE IF x.d = 0 THEN <<"I", "n", "f", "i", "n", "i", "t", "y">>
  ELSE LET n == (2 * x.n * 100 * Pow10(f) + x.d) \div (2 * x.d)
       IN NumberToString(n \div Pow10(f)) \o FractionDigits(n, f)

\* the characters the pattern [a-zA-Z0-9\s()-] matches
AllowedChars ==
  {"a", "b", "c", "d", "e", "f", "g", "h", "i", "j", "k", "l", "m",
   "n", "o", "p", "q", "r", "s", "t", "u", "v", "w", "x", "y", "z"}
  \cup
  {"A", "B", "C", "D", "E", "F", "G", "H", "I", "J", "K", "L", "M",
   "N", "O", "P", "Q", "R", "S", "T", "U", "V", "W", "X", "Y", "Z"}
  \cup
  {"0", "1", "2", "3", "4", "5", "6", "7", "8", "9"}
  \cup {" ", "\t", "\n", "\r", "\f", "(", ")", "-"}

\* contentType.replace(/[^a-zA-Z0-9\s()-]/g, '')
Sanitize(contentType) == SelectSeq(contentType, LAMBDA c : c \in AllowedChars)

\* isDarkMode ? 'Dark theme' : isLightMode ? 'Light theme' : 'Mixed theme'
ReportTheme(isDarkMode, isLightMode) ==
  IF isDarkMode THEN "Dark theme"
  ELSE IF isLightMode THEN "Light theme"
  ELSE "Mixed theme"

DiagramThemeLightFirst(isDarkMode, isLightMode) ==
  IF isLightMode THEN "Light Theme"
  ELSE IF isDarkMode THEN "Dark Theme"
  ELSE "Mixed Theme"
\* isDarkMode ? 'Dark Theme' : isLightMode ? 'Light Theme' : 'Mixed Theme'
DiagramTheme(isDarkMode, isLightMode) ==
  IF isDarkMode THEN "Dark Theme"
  ELSE IF isLightMode THEN "Light Theme"
  ELSE "Mixed Theme"

\* the values generateMermaidDiagram interpolates into its fixed template
generateMermaidDiagram(dimensions, colorAnalysis, edgeAnalysis, patternAnalysis, contentAnalysis) ==
  [Type |-> Sanitize(contentAnalysis.contentType),
   Brightness |-> PercentToFixed(colorAnalysis.brightness, 1),
   Theme |-> DiagramTheme(contentAnalysis.isDarkMode, contentAnalysis.isLightMode),
   LayoutType |-> IF contentAnalysis.isUIScreen THEN "Structured UI" ELSE "Organic Layout",
   TextDensity |-> IF contentAnalysis.hasText THEN "Text Heavy" ELSE "Visual Heavy",
   EdgeDensity |-> PercentToFixed(edgeAnalysis.normalizedEdges, 1),
   PatternDensity |->
     PercentToFixed(Frac(patternAnalysis.regularPatterns, patternAnalysis.totalPixels), 1),
   Size |-> NumberToString(dimensions.width) \o <<"x">> \o NumberToString(dimensions.height),
   Dark |-> PercentToFixed(colorAnalysis.darkRatio, 1),
   Light |-> PercentToFixed(colorAnalysis.lightRatio, 1),
   TypeClass |-> IF contentAnalysis.isErrorScreen THEN "error" ELSE "success"]

\* the values the template literal of analyzeImageLocally interpolates
Report(dimensions, colorAnalysis, edgeAnalysis, patternAnalysis, contentAnalysis, totalPixels, mermaidDiagram) ==
  [kind |-> "report",
   Type |-> contentAnalysis.contentType,
   Dimensions |->
     NumberToString(dimensions.width) \o <<"x">> \o NumberToString(dimensions.height),
   DominantColors |-> Join(colorAnalysis.dominantColors),
   Brightness |-> PercentToFixed(colorAnalysis.brightness, 1),
   Contrast |-> PercentToFixed(edgeAnalysis.normalizedEdges, 1),
   Text |-> IF contentAnalysis.hasText
            THEN "Significant text content detected"
            ELSE "Minimal or no text content",
   UIElements |-> IF 100 * edgeAnalysis.rectangularShapes > totalPixels
                  THEN "Multiple interface components detected"
                  ELSE "Few or no interface components",
   Patterns |-> IF 10 * patternAnalysis.regularPatterns > totalPixels
                THEN "Regular geometric patterns present"
                ELSE "Organic or irregular patterns",
   Layout |-> IF contentAnalysis.isUIScreen
              THEN "Structured user interface detected"
              ELSE "Not a typical user interface",
   Theme |-> IF contentAnalysis.isUIScreen
             THEN ReportTheme(contentAnalysis.isDarkMode, contentAnalysis.isLightMode)
             ELSE "",
   Components |-> IF ~contentAnalysis.isUIScreen THEN ""
                  ELSE IF 50 * edgeAnalysis.rectangularShapes > totalPixels
                       THEN "Multiple buttons/cards"
                       ELSE "Minimal interactive elements",
   Status |-> IF contentAnalysis.isErrorScreen
              THEN "Warning: Potential error indicators detected"
              ELSE "Status: No error indicators detected",
   EdgeDensity |-> PercentToFixed(edgeAnalysis.normalizedEdges, 2),
   DarkRatio |-> PercentToFixed(colorAnalysis.darkRatio, 1),
   LightRatio |-> PercentToFixed(colorAnalysis.lightRatio, 1),
   PatternRegularity |->
     PercentToFixed(Frac(patternAnalysis.regularPatterns, totalPixels), 1),
   mermaid |-> mermaidDiagram]

\* ------------------------------------------------------------ processImage
SUPPORTED_FORMATS == <<"image/jpeg", "image/png", "image/webp", "image/gif">>
MAX_IMAGE_SIZE == 10 * 1024 * 1024

\* new Error(message), or a thrown value that is no Error
Error(message) == [isError |-> TRUE, message |-> message]
NotAnError == [isError |-> FALSE, message |-> ""]

Pending == [state |-> "pending"]
Fulfilled(value) == [state |-> "fulfilled", value |-> value]
Rejected(error) == [state |-> "rejected", error |-> error]

\* the text the catch block of processImage returns
FailureText(errorMessage) ==
  [kind |-> "failure",
   Status |-> "Unable to process image",
   Reason |-> errorMessage,
   Recommendation |-> "Please ensure the image is valid and try again",
   Note |-> "Continuing with text-only analysis",
   SupportedFormats |-> "JPEG, PNG, WebP, GIF",
   MaximumSize |-> "10MB"]

CatchRethrow(error) == Rejected(error)
\* the catch block of processImage: what the async function settles with
Catch(error) ==
  Fulfilled(FailureText(IF error.isError THEN error.message ELSE "Unknown error"))

ValidateTypeOnly(image) ==
  IF image = <<>> THEN <<Error("No image provided")>>
  ELSE IF \A k \in 1..Len(SUPPORTED_FORMATS) : SUPPORTED_FORMATS[k] # image[1].type
  THEN <<Error("Unsupported image format. Supported formats: jpeg, png, webp, gif")>>
  ELSE <<>>
\* the checks before the file is read: the Error thrown, if any
Validate(image) ==
  IF image = <<>> THEN <<Error("No image provided")>>
  ELSE IF \A k \in 1..Len(SUPPORTED_FORMATS) : SUPPORTED_FORMATS[k] # image[1].type
  THEN <<Error("Unsupported image format. Supported formats: jpeg, png, webp, gif")>>
  ELSE IF image[1].size > MAX_IMAGE_SIZE
  THEN <<Error("Image size exceeds maximum limit of 10MB")>>
  ELSE <<>>

\* ----------------------------------------------------- analyzeImageLocally
\* the steps of img.onload, in the order the handler takes them
Stages ==
  <<"getContext", "drawImage", "getImageData", "analyzeColors", "analyzeEdges",
    "analyzePatterns", "analyzeContent", "generateMermaidDiagram">>

StageIndex(stage) == CHOOSE k \in 1..Len(Stages) : Stages[k] = stage

\* ctx.getImageData(0, 0, width, height) throws an IndexSizeError when the
\* width or the height is 0
GetImageDataThrows(image) ==
  IF image.width = 0 \/ image.height = 0
  THEN <<[stage |-> "getImageData", error |-> Error("The source width or height is 0")]>>
  ELSE <<>>

\* the first step of the handler that throws, if any: the injected fault or
\* getImageData on an empty canvas, whichever the handler reaches first
Thrown(image, fault) ==
  IF fault = <<>> THEN GetImageDataThrows(image)
  ELSE IF GetImageDataThrows(image) # <<>>
          /\ StageIndex(fault[1].stage) > StageIndex("getImageData")
       THEN GetImageDataThrows(image)
       ELSE fault

\* how many steps of the handler complete
Completed(image, fault) ==
  IF Thrown(image, fault) = <<>> THEN Len(Stages)
  ELSE StageIndex(Thrown(image, fault)[1].stage) - 1

OnLoadCatchPartial(error, partial) ==
  Fulfilled([kind |-> "report", partial |-> partial])
\* the catch block of img.onload; partial holds the locals computed so far
OnLoadCatch(error, partial) ==
  Rejected(Error("Failed to analyze image: "
                 \o (IF error.isError THEN error.message ELSE "Unknown error")))

\* ------------------------------------------------------------------ state
VARIABLES
  pc,              \* where the call in progress stands
  file,            \* processImage's argument `image`: <<>> or <<[type, size]>>
  events,          \* the browser calls made by the call in progress, in order
  awaited,         \* the promise processImage is awaiting
  img,             \* the Image once its source decoded: <<>> or <<[width, height, data]>>
  result,          \* the promise processImage returned
  canvas,          \* the pixel grid under analysis: <<>> or <<[width, height, data]>>
  totalPixels,     \* canvas.width * canvas.height as computed by the caller
  colorAnalysis,   \* <<>> or <<the ColorAnalysis>>
  edgeAnalysis,    \* <<>> or <<the EdgeAnalysis>>
  patternAnalysis, \* <<>> or <<the PatternAnalysis>>
  contentAnalysis, \* <<>> or <<the ContentAnalysis>>
  scratch,         \* the analyzers' accumulators as their last invocations left them
  calls,           \* analyzer runs started so far
  config,          \* ai-providers' `config`: <<>> (null) or <<[provider, apiKey]>>
  openaiClient,    \* ai-providers' `openaiClient`: <<>> (null) or <<[apiKey]>>
  claudeClient,    \* ai-providers' `claudeClient`: <<>> (null) or <<[apiKey]>>
  messageHistory,  \* ai-providers' `messageHistory`
  requests,        \* the getChatCompletion calls made so far, each with its locals
  inits,           \* how many initializeAI calls have returned true so far
  hasValidKey,     \* App's state of that name
  hasValidRunloopKey, \* App's state of that name
  isLoading,       \* App's state of that name
  isProcessing,    \* ChatInput's state of that name
  isVisible,       \* ApiKeyInput's state of that name
  aiApiKey,        \* ApiKeyInput's state of that name
  runloopApiKey,   \* ApiKeyInput's state of that name
  provider,        \* ApiKeyInput's state of that name
  aiKeyError,      \* ApiKeyInput's state `error`
  runloopError,    \* ApiKeyInput's state of that name
  localStorage,    \* the three keys the application stores, each <<>> or <<value>>
  send             \* where the submit in progress stands in handleSendMessage

vars ==
  <<pc, file, events, awaited, img, result, canvas, totalPixels, colorAnalysis,
    edgeAnalysis, patternAnalysis, contentAnalysis, scratch, calls,
    config, openaiClient, claudeClient, messageHistory, requests, inits,
    hasValidKey, hasValidRunloopKey, isLoading, isProcessing, isVisible,
    aiApiKey, runloopApiKey, provider, aiKeyError, runloopError, localStorage,
    send>>

analyses == <<canvas, totalPixels, colorAnalysis, edgeAnalysis, patternAnalysis,
              contentAnalysis>>
pipeline == <<file, events, awaited, img, result>>

\* the module state of ai-providers.ts
module == <<config, openaiClient, claudeClient, messageHistory, requests, inits>>

\* the state of the components App, ChatInput and ApiKeyInput
components ==
  <<hasValidKey, hasValidRunloopKey, isLoading, isProcessing, isVisible,
    aiApiKey, runloopApiKey, provider, aiKeyError, runloopError, localStorage,
    send>>

chat == <<module, components>>

\* nothing stored under any of the three keys
EmptyStorage == [ai_api_key |-> <<>>, ai_provider |-> <<>>, runloop_api_key |-> <<>>]

\* no submit in progress
NotSending == [stage |-> "idle", image |-> FALSE, request |-> 0]

\* ai-providers.ts as loaded
InitModule ==
  /\ config = <<>>
  /\ openaiClient = <<>>
  /\ claudeClient = <<>>
  /\ messageHistory = <<>>
  /\ requests = <<>>
  /\ inits = 0

\* the components' useState initial values
InitComponents ==
  /\ hasValidKey = FALSE
  /\ hasValidRunloopKey = FALSE
  /\ isLoading = FALSE
  /\ isProcessing = FALSE
  /\ isVisible = TRUE
  /\ aiApiKey = <<>>
  /\ runloopApiKey = <<>>
  /\ provider = "openai"
  /\ aiKeyError = ""
  /\ runloopError = ""
  /\ send = NotSending

\* the chat application before it is mounted, with nothing stored
InitChat == InitModule /\ InitComponents /\ localStorage = EmptyStorage

NoScratch == [colors |-> ColorLocals, edges |-> EdgeLocals, patterns |-> PatternLocals]

\* ------------------------------------------------- the processImage pipeline
FileTypes ==
  {"image/jpeg", "image/png", "image/webp", "image/gif", "image/svg+xml", ""}
FileSizes == {0, MAX_IMAGE_SIZE, MAX_IMAGE_SIZE + 1}
Files == {<<>>} \cup {<<[type |-> t, size |-> z]>> : t \in FileTypes, z \in FileSizes}

\* what an image can decode to
DecodedImages == Canvases(SmallPalette, MaxSmallPixels)

\* the faults the environment can raise inside img.onload: a null context,
\* or a value (an Error or not) thrown by one of the later steps
\* canvas.getContext('2d') returned null
NoContext == <<[stage |-> "getContext", error |-> Error("Failed to get canvas context")]>>

Faults ==
  {<<>>}
  \cup {NoContext}
  \cup {<<[stage |-> Stages[k], error |-> e]>> :
          k \in 2..Len(Stages), e \in {Error("out of memory"), NotAnError}}

Init ==
  /\ pc = "idle"
  /\ file = <<>>
  /\ events = <<>>
  /\ awaited = Pending
  /\ img = <<>>
  /\ result = Pending
  /\ canvas = <<>>
  /\ totalPixels = <<>>
  /\ colorAnalysis = <<>>
  /\ edgeAnalysis = <<>>
  /\ patternAnalysis = <<>>
  /\ contentAnalysis = <<>>
  /\ scratch = NoScratch
  /\ calls = 0
  /\ InitChat

\* processImage(image), up to its first await
ProcessImage(image) ==
  /\ pc = "idle"
  /\ file' = image
  /\ awaited' = Pending
  /\ img' = <<>>
  /\ canvas' = <<>>
  /\ totalPixels' = <<>>
  /\ colorAnalysis' = <<>>
  /\ edgeAnalysis' = <<>>
  /\ patternAnalysis' = <<>>
  /\ contentAnalysis' = <<>>
  /\ IF Validate(image) # <<>>
     THEN /\ result' = Catch(Validate(image)[1])
          /\ events' = <<>>
          /\ pc' = "done"
     ELSE /\ result' = Pending
          /\ events' = <<"readAsDataURL">>
          /\ pc' = "reading"
  /\ UNCHANGED <<chat, scratch, calls>>

\* reader.onload
ReaderOnLoad(isString) ==
  /\ pc = "reading"
  /\ awaited' = IF isString THEN Fulfilled([kind |-> "dataURL"])
                ELSE Rejected(Error("Failed to read image file"))
  /\ pc' = "readSettled"
  /\ UNCHANGED <<chat, file, events, img, result, analyses, scratch, calls>>

ReaderOnErrorDropped ==
  /\ pc = "reading"
  /\ pc' = "readFailed"
  /\ UNCHANGED <<chat, file, events, awaited, img, result, analyses, scratch, calls>>
\* reader.onerror
ReaderOnError ==
  /\ pc = "reading"
  /\ awaited' = Rejected(Error("Error reading image file"))
  /\ pc' = "readSettled"
  /\ UNCHANGED <<chat, file, events, img, result, analyses, scratch, calls>>

\* processImage resumes after the read: it calls analyzeImageLocally, which
\* sets img.src, or its catch block runs
ResumeAfterRead ==
  /\ pc = "readSettled"
  /\ IF awaited.state = "fulfilled"
     THEN /\ events' = Append(events, "img.src")
          /\ awaited' = Pending
          /\ pc' = "loading"
          /\ UNCHANGED result
     ELSE /\ result' = Catch(awaited.error)
          /\ pc' = "done"
          /\ UNCHANGED <<events, awaited>>
  /\ UNCHANGED <<chat, file, img, analyses, scratch, calls>>

\* the browser decoded the data URL into image and queued the load event
ImgDecoded(image) ==
  /\ pc = "loading"
  /\ img' = <<image>>
  /\ pc' = "loaded"
  /\ UNCHANGED <<chat, file, events, awaited, result, analyses, scratch, calls>>

\* img.onload; fault is what the environment throws inside the handler. Each
\* local is bound once, to <<>> when the handler left before assigning it.
ImgOnLoad(fault) ==
  /\ pc = "loaded"
  /\ \E ctx \in {img[1]} :
     \E done \in {Completed(ctx, fault)} :
     \E size \in {ctx.width * ctx.height} :
     \E colors \in {IF done >= 4 THEN <<analyzeColors(ctx.data, size)>> ELSE <<>>} :
     \E edges \in {IF done >= 5 THEN <<analyzeEdges(ctx, ctx.width, ctx.height)>> ELSE <<>>} :
     \E patterns \in {IF done >= 6 THEN <<analyzePatterns(ctx, ctx.width, ctx.height)>> ELSE <<>>} :
     \E content \in {IF done >= 7 THEN <<analyzeContent(colors[1], edges[1], patterns[1])>> ELSE <<>>} :
       LET dimensions == [width |-> ctx.width, height |-> ctx.height]
           mermaidDiagram == generateMermaidDiagram(dimensions, colors[1], edges[1], patterns[1], content[1])
           partial == [colorAnalysis |-> colors, edgeAnalysis |-> edges,
                       patternAnalysis |-> patterns, contentAnalysis |-> content]
       IN /\ events' = events \o SubSeq(Stages, 1, Min(done + 1, Len(Stages)))
          /\ canvas' = IF done >= 2 THEN <<ctx>> ELSE <<>>
          /\ totalPixels' = IF done >= 3 THEN <<size>> ELSE <<>>
          /\ colorAnalysis' = colors
          /\ edgeAnalysis' = edges
          /\ patternAnalysis' = patterns
          /\ contentAnalysis' = content
          /\ awaited' = IF done = Len(Stages)
                        THEN Fulfilled(Report(dimensions, colors[1], edges[1], patterns[1],
                                              content[1], size, mermaidDiagram))
                        ELSE OnLoadCatch(Thrown(ctx, fault)[1].error, partial)
  /\ pc' = "analysisSettled"
  /\ UNCHANGED <<chat, file, img, result, scratch, calls>>

\* img.onerror
ImgOnError ==
  /\ pc = "loading"
  /\ awaited' = Rejected(Error("Failed to load image"))
  /\ pc' = "analysisSettled"
  /\ UNCHANGED <<chat, file, events, img, result, analyses, scratch, calls>>

\* processImage resumes after analyzeImageLocally settled: it returns the
\* report, or its catch block runs
ResumeAfterAnalysis ==
  /\ pc = "analysisSettled"
  /\ result' = IF awaited.state = "fulfilled" THEN Fulfilled(awaited.value)
               ELSE Catch(awaited.error)
  /\ pc' = "done"
  /\ UNCHANGED <<chat, file, events, awaited, img, analyses, scratch, calls>>

\* the caller's await of processImage completes: it has the text, and the
\* call's locals are gone
Return ==
  /\ pc = "done"
  /\ pc' = "idle"
  /\ file' = <<>>
  /\ events' = <<>>
  /\ awaited' = Pending
  /\ img' = <<>>
  /\ result' = Pending
  /\ canvas' = <<>>
  /\ totalPixels' = <<>>
  /\ colorAnalysis' = <<>>
  /\ edgeAnalysis' = <<>>
  /\ patternAnalysis' = <<>>
  /\ contentAnalysis' = <<>>
  /\ UNCHANGED <<chat, scratch, calls>>

Next ==
  \/ \E image \in Files : ProcessImage(image)
  \/ Return
  \/ \E isString \in BOOLEAN : ReaderOnLoad(isString)
  \/ ReaderOnError
  \/ ResumeAfterRead
  \/ \E image \in DecodedImages : ImgDecoded(image)
  \/ \E fault \in Faults : ImgOnLoad(fault)
  \/ ImgOnError
  \/ ResumeAfterAnalysis

Spec == Init /\ [][Next]_vars

\* A started read fires one of its callbacks; a started load either decodes
\* or fires its error callback; a queued load event is handled; and the
\* continuation of a settled await runs. Every outcome of the load handler is
\* enabled exactly while the load event is queued and each of them ends that,
\* so weak fairness of the handler is weak fairness of any one outcome of it;
\* it is stated on the outcome that leaves at the first statement.
FairSpec ==
  /\ Spec
  /\ WF_vars((\E isString \in BOOLEAN : ReaderOnLoad(isString)) \/ ReaderOnError)
  /\ WF_vars(ResumeAfterRead)
  /\ WF_vars((\E image \in DecodedImages : ImgDecoded(image)) \/ ImgOnError)
  /\ WF_vars(ImgOnLoad(NoContext))
  /\ WF_vars(ResumeAfterAnalysis)

\* ------------------------------------------------- the analyzers on their own
EnterStale(locals, left) == left
\* the locals an invocation starts from: the ones its body declares, whatever
\* an earlier invocation left behind
Enter(locals, left) == locals

\* analyzeColors(imageData.data, canvas.width * canvas.height)
AnalyzeColorsCall ==
  /\ pc = "colors"
  /\ LET size == canvas[1].width * canvas[1].height
         acc == ColorLoop(canvas[1].data, 0, Enter(ColorLocals, scratch.colors))
     IN /\ scratch' = [scratch EXCEPT !.colors = acc]
        /\ totalPixels' = <<size>>
        /\ colorAnalysis' = <<ColorReturn(acc, size)>>
  /\ pc' = "edges"
  /\ UNCHANGED <<chat, pipeline, canvas, edgeAnalysis, patternAnalysis, contentAnalysis, calls>>

\* analyzeEdges(ctx, canvas.width, canvas.height)
AnalyzeEdgesCall ==
  /\ pc = "edges"
  /\ LET ctx == canvas[1]
         acc == EdgeLoop(ctx, ctx.width, ctx.height, 1, 1, Enter(EdgeLocals, scratch.edges))
     IN /\ scratch' = [scratch EXCEPT !.edges = acc]
        /\ edgeAnalysis' = <<EdgeReturn(acc, ctx.width, ctx.height)>>
  /\ pc' = "patterns"
  /\ UNCHANGED <<chat, pipeline, canvas, totalPixels, colorAnalysis, patternAnalysis,
                 contentAnalysis, calls>>

\* analyzePatterns(ctx, canvas.width, canvas.height)
AnalyzePatternsCall ==
  /\ pc = "patterns"
  /\ LET ctx == canvas[1]
         acc == PatternLoop(ctx, ctx.width, ctx.height, 3, 3,
                            Enter(PatternLocals, scratch.patterns))
     IN /\ scratch' = [scratch EXCEPT !.patterns = acc]
        /\ patternAnalysis' = <<PatternReturn(acc, ctx.width, ctx.height)>>
  /\ pc' = "content"
  /\ UNCHANGED <<chat, pipeline, canvas, totalPixels, colorAnalysis, edgeAnalysis,
                 contentAnalysis, calls>>

\* analyzeContent(colorAnalysis, edgeAnalysis, patternAnalysis)
AnalyzeContentCall ==
  /\ pc = "content"
  /\ contentAnalysis' =
       <<analyzeContent(colorAnalysis[1], edgeAnalysis[1], patternAnalysis[1])>>
  /\ pc' = "analyzed"
  /\ UNCHANGED <<chat, pipeline, canvas, totalPixels, colorAnalysis, edgeAnalysis,
                 patternAnalysis, scratch, calls>>

\* the four analyzers are run again, on image c
AnalyzeAgain(c) ==
  /\ pc = "analyzed"
  /\ calls < MaxCalls
  /\ calls' = calls + 1
  /\ canvas' = <<c>>
  /\ totalPixels' = <<>>
  /\ colorAnalysis' = <<>>
  /\ edgeAnalysis' = <<>>
  /\ patternAnalysis' = <<>>
  /\ contentAnalysis' = <<>>
  /\ pc' = "colors"
  /\ UNCHANGED <<chat, pipeline, scratch>>

InitAnalyzersOn(canvases) ==
  /\ pc = "colors"
  /\ canvas \in {<<c>> : c \in canvases}
  /\ file = <<>>
  /\ events = <<>>
  /\ awaited = Pending
  /\ img = <<>>
  /\ result = Pending
  /\ totalPixels = <<>>
  /\ colorAnalysis = <<>>
  /\ edgeAnalysis = <<>>
  /\ patternAnalysis = <<>>
  /\ contentAnalysis = <<>>
  /\ scratch = NoScratch
  /\ calls = 1
  /\ InitChat

NextAnalyzers ==
  \/ AnalyzeColorsCall
  \/ AnalyzeEdgesCall
  \/ AnalyzePatternsCall
  \/ AnalyzeContentCall

\* one run of the four analyzers on every canvas of at most MaxPixels pixels
InitAnalyzers == InitAnalyzersOn(Canvases(Palette, MaxPixels))
SpecAnalyzers == InitAnalyzers /\ [][NextAnalyzers]_vars

\* up to MaxCalls runs in a row, each on any small canvas
SmallCanvases == Canvases(SmallPalette, MaxSmallPixels)
InitRepeat == InitAnalyzersOn(SmallCanvases)
NextRepeat ==
  \/ NextAnalyzers
  \/ \E c \in SmallCanvases : AnalyzeAgain(c)
SpecRepeat == InitRepeat /\ [][NextRepeat]_vars

\* analyzeEdges and analyzePatterns on every large canvas
InitEdgesOn(canvases) ==
  /\ pc = "edges"
  /\ canvas \in {<<c>> : c \in canvases}
  /\ file = <<>>
  /\ events = <<>>
  /\ awaited = Pending
  /\ img = <<>>
  /\ result = Pending
  /\ totalPixels = <<>>
  /\ colorAnalysis = <<>>
  /\ edgeAnalysis = <<>>
  /\ patternAnalysis = <<>>
  /\ contentAnalysis = <<>>
  /\ scratch = NoScratch
  /\ calls = 1
  /\ InitChat
InitLarge == InitEdgesOn(LargeCanvases)
NextLarge ==
  \/ AnalyzeEdgesCall
  \/ AnalyzePatternsCall
SpecLarge == InitLarge /\ [][NextLarge]_vars

\* -------------------------------------------------- analyzeEdges on its own
\* the canvases getImageData can read, of pixels whose brightnesses differ by
\* less than 50, by 50 and by more
EdgeCanvases == {c \in Canvases(EdgePalette, MaxPixels) : c.width * c.height > 0}
InitEdges == InitEdgesOn(EdgeCanvases)
NextEdges == AnalyzeEdgesCall
SpecEdges == InitEdges /\ [][NextEdges]_vars

\* ------------------------------------------------- analyzeColors on its own
\* the buffers getImageData can return (no width or height of 0), of skipped
\* and counted pixels
AlphaCanvases == {c \in Canvases(AlphaPalette, MaxPixels) : c.width * c.height > 0}
InitColors == InitAnalyzersOn(AlphaCanvases)
NextColors == AnalyzeColorsCall
SpecColors == InitColors /\ [][NextColors]_vars

\* ------------------------------------------------ analyzeContent on its own
\* ratios at and on either side of the thresholds 0.2, 0.6 and 0.7, and NaN
DarkRatios == {Frac(0, 0), Frac(1, 10), Frac(2, 10), Frac(7, 10), Frac(8, 10)}
LightRatios == {Frac(0, 10), Frac(6, 10), Frac(7, 10), Frac(8, 10)}
ColorLists ==
  {<<>>,
   <<PureRedKey>>,
   <<QuantizedColor(255, 0, 0)>>,
   <<QuantizedColor(0, 0, 0), LightPinkKey>>,
   <<<<"x">> \o PureRedKey \o <<"y">>>>}
ColorInputs ==
  {[dominantColors |-> keys, darkRatio |-> dark, lightRatio |-> light,
    brightness |-> Frac(1, 2)] :
     keys \in ColorLists, dark \in DarkRatios, light \in LightRatios}
\* edge densities at and on either side of 0.05, 0.1 and 0.2, and NaN; edge
\* counts at and on either side of horizontal = 1.5 * vertical
EdgeDensities ==
  {Frac(0, 0), Frac(0, 100), Frac(4, 100), Frac(5, 100), Frac(6, 100), Frac(10, 100),
   Frac(11, 100), Frac(20, 100), Frac(21, 100)}
EdgeInputs ==
  {[horizontalEdges |-> hv[1], verticalEdges |-> hv[2], normalizedEdges |-> density,
    rectangularShapes |-> shapes] :
     hv \in {<<0, 0>>, <<3, 2>>, <<4, 2>>, <<2, 3>>}, density \in EdgeDensities,
     shapes \in {1, 2}}
\* counts at and above 0.01 and 0.1 of totalPixels = 100
PatternInputs == {[regularPatterns |-> regular, totalPixels |-> 100] : regular \in {10, 11}}

InitContent ==
  /\ pc = "content"
  /\ colorAnalysis \in {<<c>> : c \in ColorInputs}
  /\ edgeAnalysis \in {<<e>> : e \in EdgeInputs}
  /\ patternAnalysis \in {<<p>> : p \in PatternInputs}
  /\ contentAnalysis = <<>>
  /\ canvas = <<>>
  /\ totalPixels = <<>>
  /\ file = <<>>
  /\ events = <<>>
  /\ awaited = Pending
  /\ img = <<>>
  /\ result = Pending
  /\ scratch = NoScratch
  /\ calls = 1
  /\ InitChat

NextContent == AnalyzeContentCall
SpecContent == InitContent /\ [][NextContent]_vars

\* ------------------------------------- the report and the diagram on their own
\* letters, a digit, the characters the pattern names, white space other than
\* the space, and characters of Mermaid syntax
DiagramChars == {"a", "Z", "7", " ", "(", ")", "-", "\n", "\t", "\"", "<", "]", "_"}
Strings(maxLen) == UNION {[1..n -> DiagramChars] : n \in 0..maxLen}

\* every combination of the flags, and every string as contentType
ContentInputs ==
  {[isUIScreen |-> ui, hasText |-> text, isErrorScreen |-> error, isDarkMode |-> dark,
    isLightMode |-> light, contentType |-> UserInterface] :
     ui \in BOOLEAN, text \in BOOLEAN, error \in BOOLEAN, dark \in BOOLEAN,
     light \in BOOLEAN}
  \cup
  {[isUIScreen |-> FALSE, hasText |-> FALSE, isErrorScreen |-> FALSE, isDarkMode |-> FALSE,
    isLightMode |-> FALSE, contentType |-> s] : s \in Strings(MaxLen)}

\* generateMermaidDiagram(...) and the resolve(`...`) that follows it
RenderCall ==
  /\ pc = "render"
  /\ LET dimensions == [width |-> canvas[1].width, height |-> canvas[1].height]
         mermaidDiagram == generateMermaidDiagram(dimensions, colorAnalysis[1], edgeAnalysis[1],
                                                  patternAnalysis[1], contentAnalysis[1])
     IN awaited' = Fulfilled(Report(dimensions, colorAnalysis[1], edgeAnalysis[1],
                                    patternAnalysis[1], contentAnalysis[1], totalPixels[1],
                                    mermaidDiagram))
  /\ pc' = "rendered"
  /\ UNCHANGED <<chat, file, events, img, result, analyses, scratch, calls>>

InitDiagram ==
  /\ pc = "render"
  /\ canvas = <<Uniform(2, 1, White)>>
  /\ totalPixels = <<2>>
  /\ colorAnalysis = <<analyzeColors(canvas[1].data, 2)>>
  /\ edgeAnalysis = <<analyzeEdges(canvas[1], 2, 1)>>
  /\ patternAnalysis = <<analyzePatterns(canvas[1], 2, 1)>>
  /\ contentAnalysis \in {<<c>> : c \in ContentInputs}
  /\ file = <<>>
  /\ events = <<>>
  /\ awaited = Pending
  /\ img = <<>>
  /\ result = Pending
  /\ scratch = NoScratch
  /\ calls = 1
  /\ InitChat

NextDiagram == RenderCall
SpecDiagram == InitDiagram /\ [][NextDiagram]_vars

\* ------------------------------------------------------------- properties
Settled == result.state # "pending"
ReturnedReport == result.state = "fulfilled" /\ result.value.kind = "report"
ReturnedFailure == result.state = "fulfilled" /\ result.value.kind = "failure"
LastEvent == IF events = <<>> THEN "" ELSE events[Len(events)]
InUnitRange(x) == x.d > 0 /\ 0 <= x.n /\ x.n <= x.d

\* C1: processImage never rejects: whatever validation, the file read, the
\* decode and the analysis steps do (a thrown exception included), the promise
\* it returned is never rejected, and once the call is over it is fulfilled
\* with a text (the report or the failure text).
C1_NeverRejects ==
  /\ result.state # "rejected"
  /\ pc = "done" => ReturnedReport \/ ReturnedFailure

\* C1 witness: an analyzer threw inside img.onload and the call still ended
\* with a text.
C1_AnalyzerThrewAndResolved ==
  /\ pc = "done"
  /\ LastEvent = "analyzeEdges"
  /\ ReturnedFailure

\* C2: an image whose declared type is not one of the four supported types, or
\* whose declared size is above 10 * 1024 * 1024, gets the failure text with no
\* read, decode or analysis event in its call.
C2_RejectedBeforeRead ==
  LET invalid ==
        /\ file # <<>>
        /\ \/ file[1].type \notin {"image/jpeg", "image/png", "image/webp", "image/gif"}
           \/ file[1].size > 10 * 1024 * 1024
  IN invalid => pc = "done" /\ ReturnedFailure /\ events = <<>>

\* C2 witness: a PNG one byte above the limit was rejected.
C2_OversizedRejected ==
  /\ file # <<>>
  /\ file[1].type = "image/png"
  /\ file[1].size = 10 * 1024 * 1024 + 1
  /\ ReturnedFailure

\* the reasons the failure text can carry
C3_Reasons ==
  {"No image provided",
   "Unsupported image format. Supported formats: jpeg, png, webp, gif",
   "Image size exceeds maximum limit of 10MB",
   "Failed to read image file",
   "Error reading image file",
   "Failed to load image",
   "Failed to analyze image: Failed to get canvas context",
   "Failed to analyze image: The source width or height is 0",
   "Failed to analyze image: out of memory",
   "Failed to analyze image: Unknown error"}

\* C3: the text processImage returns is either the complete report, built
\* from a run in which every analyzer and the diagram builder completed, or
\* the failure text, whose fields are fixed but for Reason; no statistic of a
\* stage that completed before a failure is in it.
C3_ReportOrFailure ==
  result.state = "fulfilled" =>
    \/ /\ result.value.kind = "report"
       /\ canvas # <<>>
       /\ totalPixels # <<>>
       /\ colorAnalysis # <<>>
       /\ edgeAnalysis # <<>>
       /\ patternAnalysis # <<>>
       /\ contentAnalysis # <<>>
       /\ LastEvent = "generateMermaidDiagram"
       /\ DOMAIN result.value =
            {"kind", "Type", "Dimensions", "DominantColors", "Brightness", "Contrast",
             "Text", "UIElements", "Patterns", "Layout", "Theme", "Components", "Status",
             "EdgeDensity", "DarkRatio", "LightRatio", "PatternRegularity", "mermaid"}
       /\ result.value.Type = contentAnalysis[1].contentType
       /\ result.value.DominantColors = Join(colorAnalysis[1].dominantColors)
       /\ result.value.mermaid.Type = Sanitize(contentAnalysis[1].contentType)
    \/ /\ result.value.kind = "failure"
       /\ DOMAIN result.value =
            {"kind", "Status", "Reason", "Recommendation", "Note", "SupportedFormats",
             "MaximumSize"}
       /\ result.value.Status = "Unable to process image"
       /\ result.value.Reason \in C3_Reasons
       /\ result.value.Recommendation = "Please ensure the image is valid and try again"
       /\ result.value.Note = "Continuing with text-only analysis"
       /\ result.value.SupportedFormats = "JPEG, PNG, WebP, GIF"
       /\ result.value.MaximumSize = "10MB"

\* C3 witness: analyzeColors had completed when analyzeEdges threw, and the
\* call returned the failure text.
C3_FailedAfterStatistics ==
  /\ pc = "done"
  /\ colorAnalysis # <<>>
  /\ edgeAnalysis = <<>>
  /\ ReturnedFailure

\* C4: every call of processImage eventually resolves, given that a started
\* read and a started load each fire one of their callbacks.
C4_EventuallyResolves == (pc \notin {"idle", "done"}) ~> (pc = "done" /\ Settled)

\* C4 witness: a call that read the file and loaded the image has resolved.
C4_ResolvedAfterLoad ==
  /\ pc = "done"
  /\ Settled
  /\ Len(events) >= 2
  /\ events[2] = "img.src"

C6_RatiosInUnitRange ==
  (/\ colorAnalysis # <<>>
   /\ totalPixels[1] > 0
   /\ Len(canvas[1].data) = 4 * totalPixels[1]) =>
    /\ InUnitRange(colorAnalysis[1].darkRatio)
    /\ InUnitRange(colorAnalysis[1].lightRatio)
    /\ InUnitRange(colorAnalysis[1].brightness)

\* C6 witness: an all-white image of four pixels, whose brightness is 1.
C6_FullBrightness ==
  /\ colorAnalysis # <<>>
  /\ totalPixels = <<4>>
  /\ colorAnalysis[1].brightness.n = colorAnalysis[1].brightness.d
  /\ colorAnalysis[1].lightRatio = Frac(4, 4)

\* C7: when processImage returns a report, the divisor analyzeColors used,
\* PatternAnalysis.totalPixels and the report's divisor all equal
\* width * height, which is > 0; an image that decodes with width 0 or
\* height 0 gets the failure text.
C7_TotalPixelsIsArea ==
  /\ ReturnedReport =>
       LET area == canvas[1].width * canvas[1].height
       IN /\ area > 0
          /\ totalPixels = <<area>>
          /\ colorAnalysis[1].darkRatio.d = area
          /\ colorAnalysis[1].lightRatio.d = area
          /\ colorAnalysis[1].brightness.d = 3 * 255 * area
          /\ patternAnalysis[1].totalPixels = area
  /\ (/\ pc = "done"
      /\ canvas # <<>>
      /\ canvas[1].width = 0 \/ canvas[1].height = 0) => ReturnedFailure

\* C7 witness: a report was returned for an image of two pixels.
C7_ReportForTwoPixels == ReturnedReport /\ totalPixels = <<2>>

\* C7 second case reached: an image of width 0 decoded and the call ended.
C7_ZeroWidthEnded == pc = "done" /\ canvas # <<>> /\ canvas[1].width = 0

\* C8: for a ColorAnalysis produced by analyzeColors, isErrorScreen is true
\* exactly when darkRatio < 0.2, lightRatio > 0.6 and a dominant colour is the
\* key analyzeColors gives pure red (255,0,0) or light pink (255,192,192).
C8_ErrorScreenOnQuantizedKeys ==
  contentAnalysis # <<>> =>
    (contentAnalysis[1].isErrorScreen <=>
       /\ JsLess(colorAnalysis[1].darkRatio, Frac(2, 10))
       /\ JsGreater(colorAnalysis[1].lightRatio, Frac(6, 10))
       /\ \E k \in 1..Len(colorAnalysis[1].dominantColors) :
            colorAnalysis[1].dominantColors[k]
              \in {QuantizedColor(255, 0, 0), QuantizedColor(255, 192, 192)})

\* C9: when isUIScreen is true the suffix of contentType follows error > dark
\* > light: ' (Error Screen)' whenever isErrorScreen, ' (Dark Theme)' exactly
\* when isErrorScreen is false and isDarkMode true, ' (Light Theme)' exactly
\* when both are false and isLightMode true, and none otherwise.
C9_SuffixPrecedence ==
  (contentAnalysis # <<>> /\ contentAnalysis[1].isUIScreen) =>
    LET c == contentAnalysis[1]
        error == c.isErrorScreen
        dark == ~c.isErrorScreen /\ c.isDarkMode
        light == ~c.isErrorScreen /\ ~c.isDarkMode /\ c.isLightMode
    IN /\ error <=> c.contentType = UserInterface \o ErrorScreenSuffix
       /\ dark <=> c.contentType = UserInterface \o DarkThemeSuffix
       /\ light <=> c.contentType = UserInterface \o LightThemeSuffix
       /\ (~error /\ ~dark /\ ~light) <=> c.contentType = UserInterface

\* C9 witness: a light UI screen that is an error screen too, labelled as an
\* error screen.
C9_ErrorOverLight ==
  /\ contentAnalysis # <<>>
  /\ contentAnalysis[1].isUIScreen
  /\ contentAnalysis[1].isErrorScreen
  /\ contentAnalysis[1].isLightMode
  /\ contentAnalysis[1].contentType = UserInterface \o ErrorScreenSuffix

\* C10: contentType is chosen by first match: isUIScreen, then hasText with
\* normalizedEdges > 0.2 ('Document or Text Content'), then normalizedEdges <
\* 0.05 ('Simple Graphic or Icon'), else 'Complex Image or Photo'; it is one
\* of the fixed labels and never 'Unknown'.
C10_FirstMatch ==
  contentAnalysis # <<>> =>
    LET c == contentAnalysis[1]
        density == edgeAnalysis[1].normalizedEdges
        userInterface ==
          {UserInterface, UserInterface \o ErrorScreenSuffix,
           UserInterface \o DarkThemeSuffix, UserInterface \o LightThemeSuffix}
    IN /\ c.contentType # Unknown
       /\ c.contentType \in userInterface \cup {DocumentOrText, SimpleGraphic, ComplexImage}
       /\ IF c.isUIScreen THEN c.contentType \in userInterface
          ELSE IF c.hasText /\ JsGreater(density, Frac(2, 10))
               THEN c.contentType = DocumentOrText
          ELSE IF JsLess(density, Frac(5, 100)) THEN c.contentType = SimpleGraphic
          ELSE c.contentType = ComplexImage

\* C10 witness: a UI screen whose edges also qualify as a text document is
\* labelled a user interface.
C10_UIBeforeDocument ==
  /\ contentAnalysis # <<>>
  /\ contentAnalysis[1].isUIScreen
  /\ contentAnalysis[1].hasText
  /\ JsGreater(edgeAnalysis[1].normalizedEdges, Frac(2, 10))
  /\ contentAnalysis[1].contentType = UserInterface


\* C11: for every input to analyzeContent, isUIScreen is rectangularShapes >
\* 0.01 * totalPixels and regularPatterns > 0.1 * totalPixels, and hasText is
\* horizontalEdges > 1.5 * verticalEdges and normalizedEdges > 0.1; the
\* comparisons are strict, and neither flag depends on the other flags or on
\* the colours.
C11_FlagThresholds ==
  contentAnalysis # <<>> =>
    LET e == edgeAnalysis[1]
        p == patternAnalysis[1]
    IN /\ contentAnalysis[1].isUIScreen <=>
            /\ JsGreater(Frac(e.rectangularShapes, 1), Frac(p.totalPixels, 100))
            /\ JsGreater(Frac(p.regularPatterns, 1), Frac(p.totalPixels, 10))
       /\ contentAnalysis[1].hasText <=>
            /\ JsGreater(Frac(e.horizontalEdges, 1), Frac(3 * e.verticalEdges, 2))
            /\ JsGreater(e.normalizedEdges, Frac(1, 10))

\* C11 witness: every quantity exactly at its threshold (1 of 100 shapes, 10
\* of 100 regular pixels, 3 horizontal against 2 vertical edges, density
\* 0.1), and both flags false.
C11_AtEveryThreshold ==
  /\ contentAnalysis # <<>>
  /\ edgeAnalysis[1].rectangularShapes = 1
  /\ patternAnalysis[1] = [regularPatterns |-> 10, totalPixels |-> 100]
  /\ edgeAnalysis[1].horizontalEdges = 3
  /\ edgeAnalysis[1].verticalEdges = 2
  /\ edgeAnalysis[1].normalizedEdges = Frac(10, 100)
  /\ ~contentAnalysis[1].isUIScreen
  /\ ~contentAnalysis[1].hasText


\* C12: dominantColors lists the quantized keys of the counted pixels (alpha
\* >= 128) by descending count, keys of equal count in the order their first
\* pixel comes in the buffer; it holds the first 3 of them at most and no key
\* twice.
C12_DominantOrder ==
  colorAnalysis # <<>> =>
    LET data == canvas[1].data
        counted == {i \in 1..(Len(data) \div 4) : data[4 * i] >= 128}
        key(i) == QuantizedColor(data[4 * i - 3], data[4 * i - 2], data[4 * i - 1])
        keys == {key(i) : i \in counted}
        count(k) == Cardinality({i \in counted : key(i) = k})
        first(k) == CHOOSE i \in counted :
                      key(i) = k /\ \A j \in counted : key(j) = k => i <= j
        ahead(k1, k2) ==
          \/ count(k1) > count(k2)
          \/ count(k1) = count(k2) /\ first(k1) < first(k2)
        colors == colorAnalysis[1].dominantColors
        listed == {colors[j] : j \in 1..Len(colors)}
    IN /\ Len(colors) = Min(3, Cardinality(keys))
       /\ listed \subseteq keys
       /\ \A j, k \in 1..Len(colors) : j < k => ahead(colors[j], colors[k])
       /\ \A k1 \in listed, k2 \in keys \ listed : ahead(k1, k2)

\* C12 witness: white, black, black, red: black leads with two pixels, and
\* white precedes red because its pixel came first.
C12_CountThenFirstSeen ==
  /\ colorAnalysis # <<>>
  /\ canvas[1].data = Flatten(<<White, Black, Black, Red>>)
  /\ colorAnalysis[1].dominantColors =
       <<QuantizedColor(0, 0, 0), QuantizedColor(255, 255, 255), QuantizedColor(255, 0, 0)>>

\* C12, truncation reached: four keys of one pixel each, the first three kept.
C12_FourKeysTruncated ==
  /\ colorAnalysis # <<>>
  /\ canvas[1].data = Flatten(<<Grey, White, Black, Red>>)
  /\ Len(colorAnalysis[1].dominantColors) = 3
  /\ colorAnalysis[1].dominantColors[1] = QuantizedColor(128, 128, 128)


\* C13: a pixel with alpha < 128 contributes to no statistic of analyzeColors:
\* giving any such pixel other RGB values leaves the result as it is, and a
\* buffer whose pixels all have alpha 0 gives darkRatio 0, lightRatio 0,
\* brightness 0 and no dominant colour.
C13_SkippedPixelsIgnored ==
  colorAnalysis # <<>> =>
    LET data == canvas[1].data
        pixels == 1..(Len(data) \div 4)
        withRgb(i, rgb) ==
          [k \in 1..Len(data) |->
             IF k \in (4 * i - 3)..(4 * i - 1) THEN rgb[k - (4 * i - 4)] ELSE data[k]]
        isZero(x) == x.n = 0 /\ x.d > 0
    IN /\ \A i \in pixels :
            data[4 * i] < 128 =>
              \A rgb \in {<<0, 0, 0>>, <<255, 0, 0>>, <<255, 255, 255>>, <<90, 90, 90>>} :
                analyzeColors(withRgb(i, rgb), totalPixels[1]) = colorAnalysis[1]
       /\ (\A i \in pixels : data[4 * i] = 0) =>
            /\ isZero(colorAnalysis[1].darkRatio)
            /\ isZero(colorAnalysis[1].lightRatio)
            /\ isZero(colorAnalysis[1].brightness)
            /\ colorAnalysis[1].dominantColors = <<>>

\* C13 witness: a pixel of alpha 127 beside a counted white one; only the
\* white one shows in the result.
C13_Alpha127Skipped ==
  /\ colorAnalysis # <<>>
  /\ canvas[1].data = Flatten(<<Clear, White>>)
  /\ colorAnalysis[1].lightRatio = Frac(1, 2)
  /\ Len(colorAnalysis[1].dominantColors) = 1

\* C13, second case reached: four pixels of alpha 0 analysed.
C13_AllTransparent ==
  /\ colorAnalysis # <<>>
  /\ canvas[1].data = Flatten(<<Transparent, TransparentRed, Transparent, TransparentRed>>)
  /\ colorAnalysis[1].darkRatio = Frac(0, 4)


\* C14: for an opaque image of any positive size, analyzeColors returns
\* darkRatio 1, lightRatio 0 and brightness 0 when every pixel is (0,0,0), and
\* darkRatio 0, lightRatio 1 and brightness 1 when every pixel is
\* (255,255,255).
C14_BlackAndWhite ==
  (colorAnalysis # <<>> /\ totalPixels[1] > 0) =>
    LET data == canvas[1].data
        pixels == 1..(Len(data) \div 4)
        all(p) == \A i \in pixels : SubSeq(data, 4 * i - 3, 4 * i) = p
        isZero(x) == x.n = 0 /\ x.d > 0
        isOne(x) == x.n = x.d /\ x.d > 0
        c == colorAnalysis[1]
    IN /\ all(<<0, 0, 0, 255>>) =>
            isOne(c.darkRatio) /\ isZero(c.lightRatio) /\ isZero(c.brightness)
       /\ all(<<255, 255, 255, 255>>) =>
            isZero(c.darkRatio) /\ isOne(c.lightRatio) /\ isOne(c.brightness)

\* C14 witness: an all-black opaque image of three pixels, all of them dark.
C14_ThreeBlackPixels ==
  /\ colorAnalysis # <<>>
  /\ canvas[1].data = Flatten(<<Black, Black, Black>>)
  /\ colorAnalysis[1].darkRatio = Frac(3, 3)
  /\ colorAnalysis[1].brightness.n = 0

\* C14, second case reached: an all-white opaque image of two by two pixels.
C14_FourWhitePixels ==
  /\ colorAnalysis # <<>>
  /\ canvas[1].width = 2
  /\ canvas[1].data = Flatten(<<White, White, White, White>>)
  /\ colorAnalysis[1].darkRatio = Frac(0, 4)


\* C15: for an image of width >= 3 and height >= 3 whose pixels all have the
\* same RGB value, analyzeEdges returns horizontalEdges = verticalEdges =
\* rectangularShapes = 0 and analyzePatterns returns regularPatterns =
\* (width - 3) * (height - 3).
C15_UniformImage ==
  LET ctx == canvas[1]
      sameRgb == \A i \in 1..(ctx.width * ctx.height), ch \in 1..3 :
                   ctx.data[4 * i - 4 + ch] = ctx.data[ch]
  IN (ctx.width >= 3 /\ ctx.height >= 3 /\ sameRgb) =>
       /\ edgeAnalysis # <<>> =>
            /\ edgeAnalysis[1].horizontalEdges = 0
            /\ edgeAnalysis[1].verticalEdges = 0
            /\ edgeAnalysis[1].rectangularShapes = 0
       /\ patternAnalysis # <<>> =>
            patternAnalysis[1].regularPatterns = (ctx.width - 3) * (ctx.height - 3)

\* C15 witness: a five by five image of one colour: no edge, and the four
\* pixels with x >= 3 and y >= 3 regular.
C15_FiveByFive ==
  /\ patternAnalysis # <<>>
  /\ canvas[1] = Uniform(5, 5, Grey)
  /\ edgeAnalysis[1].horizontalEdges = 0
  /\ patternAnalysis[1].regularPatterns = 4


\* C15, alpha differing reached: one RGB value with alpha 255 and 0 in turn.
C15_StripedAlpha ==
  /\ patternAnalysis # <<>>
  /\ canvas[1] = Striped(4, 5, White)
  /\ patternAnalysis[1].regularPatterns = 2

\* C18: analyzePatterns counts pixel (x, y), x >= 3 and y >= 3, as regular
\* exactly when each of the nine pixels of the 3x3 block whose top-left corner
\* is (x - 3, y - 3) is within 20 of pixel (x, y) in each of R, G and B (so the
\* break on the first failing pixel changes nothing), and totalPixels is
\* width * height.
C18_RegularCount ==
  patternAnalysis # <<>> =>
    LET ctx == canvas[1]
        within20(x, y, bx, by) ==
          \A ch \in 1..3 : Abs(PixelAt(ctx, bx, by)[ch] - PixelAt(ctx, x, y)[ch]) <= 20
        regular ==
          {xy \in (3..(ctx.width - 1)) \X (3..(ctx.height - 1)) :
             \A dx \in 0..2, dy \in 0..2 :
               within20(xy[1], xy[2], xy[1] - 3 + dx, xy[2] - 3 + dy)}
    IN /\ patternAnalysis[1].regularPatterns = Cardinality(regular)
       /\ patternAnalysis[1].totalPixels = ctx.width * ctx.height

\* C18 witness: in a four by four image the block of pixel (3, 3) holds a
\* pixel exactly 20 away in two channels, and (3, 3) is counted.
C18_At20Counted ==
  /\ patternAnalysis # <<>>
  /\ canvas[1] = TwoOdd(4, 4, 6, Near, 6, Near)
  /\ patternAnalysis[1].regularPatterns = 1

\* C18, failing pixel reached: the same block holds a pixel 21 away in one
\* channel, and (3, 3) is not counted.
C18_At21NotCounted ==
  /\ patternAnalysis # <<>>
  /\ canvas[1] = TwoOdd(4, 4, 6, Far, 6, Far)
  /\ patternAnalysis[1].regularPatterns = 0


\* C16: for any contentType string, the Type label of the diagram is
\* contentType with every character other than a letter, a digit, the space,
\* a parenthesis and the hyphen removed, the others kept in order.
C16_OnlyListedCharactersKept ==
  pc = "rendered" =>
    LET kept == (AllowedChars \ {"\t", "\n", "\r", "\f"})
    IN awaited.value.mermaid.Type =
         SelectSeq(contentAnalysis[1].contentType, LAMBDA c : c \in kept)

\* C19: the theme shown in the report (shown for a UI screen) and the Theme
\* node of the diagram are one function of the flags: Dark whenever isDarkMode
\* is true, isLightMode being true or not, Light when isDarkMode is false and
\* isLightMode true, Mixed otherwise.
C19_SameTheme ==
  pc = "rendered" =>
    LET c == contentAnalysis[1]
        theme == IF c.isDarkMode THEN "Dark"
                 ELSE IF c.isLightMode THEN "Light"
                 ELSE "Mixed"
    IN /\ awaited.value.mermaid.Theme = theme \o " Theme"
       /\ c.isUIScreen => awaited.value.Theme = theme \o " theme"

\* C19 witness: a UI screen with isDarkMode and isLightMode both true is Dark
\* in the report and in the diagram.
C19_BothFlagsDark ==
  /\ pc = "rendered"
  /\ contentAnalysis[1].isUIScreen
  /\ contentAnalysis[1].isDarkMode
  /\ contentAnalysis[1].isLightMode
  /\ awaited.value.Theme = "Dark theme"
  /\ awaited.value.mermaid.Theme = "Dark Theme"


\* C17: analyzeEdges visits the pixels with x >= 1 and y >= 1; horizontalEdges
\* counts those whose mean RGB brightness is more than 50 away from the left
\* neighbour's, verticalEdges those more than 50 away from the top
\* neighbour's, rectangularShapes those where both hold, and normalizedEdges
\* is (horizontalEdges + verticalEdges) / (width * height). The means are
\* compared exactly, in thirds: more than 150 apart.
C17_EdgeCounts ==
  edgeAnalysis # <<>> =>
    LET ctx == canvas[1]
        visited == (1..(ctx.width - 1)) \X (1..(ctx.height - 1))
        sum(x, y) == PixelAt(ctx, x, y)[1] + PixelAt(ctx, x, y)[2] + PixelAt(ctx, x, y)[3]
        horizontal == {xy \in visited :
                         Abs(sum(xy[1], xy[2]) - sum(xy[1] - 1, xy[2])) > 150}
        vertical == {xy \in visited :
                       Abs(sum(xy[1], xy[2]) - sum(xy[1], xy[2] - 1)) > 150}
        e == edgeAnalysis[1]
    IN /\ e.horizontalEdges = Cardinality(horizontal)
       /\ e.verticalEdges = Cardinality(vertical)
       /\ e.rectangularShapes = Cardinality(horizontal \cap vertical)
       /\ e.normalizedEdges =
            Frac(Cardinality(horizontal) + Cardinality(vertical), ctx.width * ctx.height)


\* C20: for a ColorAnalysis that analyzeColors produced from a buffer of
\* 4 * totalPixels bytes, darkRatio + lightRatio <= 1 (no pixel is counted as
\* dark and as light), and analyzeContent returns neither isDarkMode together
\* with isLightMode nor isErrorScreen together with isDarkMode.
C20_DarkAndLightExclusive ==
  /\ (colorAnalysis # <<>> /\ totalPixels[1] > 0) =>
       LET c == colorAnalysis[1]
       IN /\ c.darkRatio.d = totalPixels[1]
          /\ c.lightRatio.d = totalPixels[1]
          /\ c.darkRatio.n + c.lightRatio.n <= totalPixels[1]
  /\ contentAnalysis # <<>> =>
       /\ ~(contentAnalysis[1].isDarkMode /\ contentAnalysis[1].isLightMode)
       /\ ~(contentAnalysis[1].isErrorScreen /\ contentAnalysis[1].isDarkMode)

\* C20 witness: three black pixels and a white one: dark mode, not light mode.
C20_DarkNotLight ==
  /\ contentAnalysis # <<>>
  /\ colorAnalysis[1].darkRatio = Frac(3, 4)
  /\ colorAnalysis[1].lightRatio = Frac(1, 4)
  /\ contentAnalysis[1].isDarkMode
  /\ ~contentAnalysis[1].isLightMode


\* ------------------------------------------------- ai-providers.ts
SYSTEM_PROMPT == "You are a helpful AI assistant ..."

SystemEntry == [role |-> "system", content |-> <<SYSTEM_PROMPT>>]

Providers == {"openai", "claude"}

\* keys are sequences of characters; the keys initializeAI is called with are
\* the empty one and one that is not empty
ApiKeys == {<<>>, <<"s", "k", "-", "1">>}

\* the texts getChatCompletion is called with
Messages == {"hi", "why?"}

\* what processImage resolves with: a report or the failure text
ImageAnalyses == {"**Image Analysis Report**", "**Image Analysis Status**"}

\* how a provider call ends: a reply, a reply with nothing in it, or a failure
\* with an HTTP status or a message
Responses == {"reply", "empty", "401", "403", "Failed to fetch", "Rate limited"}

\* a string built from parts is the sequence of its parts
WithAnalysis(imageAnalysis, message) == <<imageAnalysis, "\n\nUser Message: ", message>>

\* the four variables of the module that initializeAI assigns
ModuleState ==
  [config |-> config, openaiClient |-> openaiClient, claudeClient |-> claudeClient,
   messageHistory |-> messageHistory]

\* initializeAI called in module state m: the module state it leaves and the
\* value it returns; `throws` says whether the client's constructor throws
initializeAI(m, p, apiKey, throws) ==
  IF apiKey = <<>>
  THEN [config |-> m.config, openaiClient |-> m.openaiClient,
        claudeClient |-> m.claudeClient, messageHistory |-> m.messageHistory,
        returns |-> FALSE]
  ELSE IF throws
  THEN [config |-> <<>>, openaiClient |-> <<>>, claudeClient |-> <<>>,
        messageHistory |-> <<>>, returns |-> FALSE]
  ELSE [config |-> <<[provider |-> p, apiKey |-> apiKey]>>,
        openaiClient |-> IF p = "openai" THEN <<[apiKey |-> apiKey]>> ELSE m.openaiClient,
        claudeClient |-> IF p = "openai" THEN m.claudeClient ELSE <<[apiKey |-> apiKey]>>,
        messageHistory |-> <<SystemEntry>>, returns |-> TRUE]

\* the client a completion of provider p works with
Client(p) == IF p = "openai" THEN openaiClient ELSE claudeClient

\* a getChatCompletion call and its locals: `via` is the provider function it
\* was dispatched to, `content` what it sends as the user's turn, `promise` the
\* promise it returned; `began` and `wrote` remember how many initializations
\* had succeeded when it was called and when it pushed to messageHistory
Request(message, image, via, stage, content, promise) ==
  [message |-> message, image |-> image, via |-> via, stage |-> stage,
   content |-> content, promise |-> promise, began |-> inits, wrote |-> <<>>]

\* getChatCompletion up to its first await
getChatCompletion(message, image) ==
  IF config = <<>>
  THEN Request(message, image, "", "done", <<>>,
               Rejected(Error("AI provider not initialized. Please set a valid API key.")))
  ELSE IF Client(config[1].provider) = <<>>
  THEN Request(message, image, config[1].provider, "done", <<>>,
               Rejected(Error(IF config[1].provider = "openai"
                              THEN "OpenAI client not initialized"
                              ELSE "Claude client not initialized")))
  ELSE IF image
  THEN Request(message, image, config[1].provider, "processImage", <<>>, Pending)
  ELSE Request(message, image, config[1].provider, "create", <<message>>, Pending)

\* the error a provider function's catch block rethrows
Rethrown(via, status, message) ==
  IF status = "401"
  THEN Error(IF via = "openai" THEN "Invalid OpenAI API key" ELSE "Invalid Claude API key")
  ELSE IF via = "claude" /\ status = "403"
  THEN Error("Access denied. Please check your Claude API key permissions.")
  ELSE IF via = "claude" /\ message = "Failed to fetch"
  THEN Error("Unable to connect to Claude API. Please check your internet connection and try again.")
  ELSE IF message # "" THEN Error(message)
  ELSE Error(IF via = "openai" THEN "Failed to get response from OpenAI"
             ELSE "An unexpected error occurred while connecting to Claude API")

\* the provider function after `await processImage(image)`: it reads the
\* client again to call create
AfterProcessImage(request, imageAnalysis) ==
  IF Client(request.via) = <<>>
  THEN [request EXCEPT !.stage = "done",
                       !.content = WithAnalysis(imageAnalysis, request.message),
                       !.promise = Rejected(Rethrown(request.via, "",
                                     "Cannot read properties of null"))]
  ELSE [request EXCEPT !.stage = "create",
                       !.content = WithAnalysis(imageAnalysis, request.message)]

\* the assistant's text in a response, <<>> when reading it throws
AssistantResponse(via, response) ==
  IF response = "reply" THEN <<"Sure.">>
  ELSE IF via = "openai" THEN <<"Sorry, I could not process your request.">>
  ELSE <<>>

\* the status and the message of the error a failed create rejects with
CreateError(response) ==
  IF response \in {"401", "403"} THEN [status |-> response, message |-> "Request failed"]
  ELSE [status |-> "", message |-> response]

\* the two entries a completed exchange pushes
Exchange(request, text) ==
  <<[role |-> "user", content |-> <<request.message>>], [role |-> "assistant", content |-> <<text>>]>>

\* the provider function after `await ....create(...)`
AfterCreate(request, response) ==
  IF response \in {"reply", "empty"}
  THEN IF AssistantResponse(request.via, response) = <<>>
       THEN [request EXCEPT !.stage = "done",
                            !.promise = Rejected(Rethrown(request.via, "",
                                          "Cannot read properties of undefined"))]
       ELSE [request EXCEPT !.stage = "done", !.wrote = <<inits>>,
                            !.promise = Fulfilled(AssistantResponse(request.via, response)[1])]
  ELSE [request EXCEPT !.stage = "done",
                       !.promise = Rejected(Rethrown(request.via, CreateError(response).status,
                                                     CreateError(response).message))]

\* messageHistory after the provider function resumed from create
Pushed(request, response) ==
  IF AfterCreate(request, response).promise.state = "fulfilled"
  THEN messageHistory \o Exchange(request, AssistantResponse(request.via, response)[1])
  ELSE messageHistory

\* a call of initializeAI from outside the components
InitializeAICall(p, apiKey, throws) ==
  /\ inits < MaxInits
  /\ \E after \in {initializeAI(ModuleState, p, apiKey, throws)} :
       /\ config' = after.config
       /\ openaiClient' = after.openaiClient
       /\ claudeClient' = after.claudeClient
       /\ messageHistory' = after.messageHistory
       /\ inits' = IF after.returns THEN inits + 1 ELSE inits
  /\ UNCHANGED <<requests, components, pipeline, analyses, pc, scratch, calls>>

\* a call of getChatCompletion from outside the components
GetChatCompletionCall(message, image) ==
  /\ Len(requests) < MaxRequests
  /\ requests' = Append(requests, getChatCompletion(message, image))
  /\ UNCHANGED <<config, openaiClient, claudeClient, messageHistory, inits>>
  /\ UNCHANGED <<components, pipeline, analyses, pc, scratch, calls>>

\* processImage resolves and the provider function of request r resumes
ProcessImageSettles(r, imageAnalysis) ==
  /\ r \in 1..Len(requests)
  /\ requests[r].stage = "processImage"
  /\ requests' = [requests EXCEPT ![r] = AfterProcessImage(requests[r], imageAnalysis)]
  /\ UNCHANGED <<config, openaiClient, claudeClient, messageHistory, inits>>
  /\ UNCHANGED <<components, pipeline, analyses, pc, scratch, calls>>

\* the provider's create call settles and the provider function of request r resumes
CreateSettles(r, response) ==
  /\ r \in 1..Len(requests)
  /\ requests[r].stage = "create"
  /\ requests' = [requests EXCEPT ![r] = AfterCreate(requests[r], response)]
  /\ messageHistory' = Pushed(requests[r], response)
  /\ UNCHANGED <<config, openaiClient, claudeClient, inits>>
  /\ UNCHANGED <<components, pipeline, analyses, pc, scratch, calls>>

NextProvider ==
  \/ \E p \in Providers, apiKey \in ApiKeys, throws \in BOOLEAN : InitializeAICall(p, apiKey, throws)
  \/ \E message \in Messages, image \in BOOLEAN : GetChatCompletionCall(message, image)
  \/ \E r \in 1..MaxRequests, imageAnalysis \in ImageAnalyses : ProcessImageSettles(r, imageAnalysis)
  \/ \E r \in 1..MaxRequests, response \in Responses : CreateSettles(r, response)

SpecProvider == Init /\ [][NextProvider]_vars


\* the user and assistant entries of messageHistory come in adjacent pairs
\* after the first entry
InPairs(history) ==
  /\ Len(history) % 2 = 1
  /\ \A k \in 2..Len(history) :
       history[k].role = (IF k % 2 = 0 THEN "user" ELSE "assistant")

\* the requests that completed and wrote into the history in use now
Written == {r \in 1..Len(requests) : requests[r].wrote = <<inits>>}

\* C21: whatever initializeAI and getChatCompletion calls interleave (several
\* completions in flight, failing initializations included), a non-empty
\* messageHistory starts with the system prompt and continues with adjacent
\* (user, assistant) pairs only, a failed completion has pushed nothing, and
\* every user entry is the raw message of a request, without analysis text
C21_SystemThenPairs ==
  /\ messageHistory # <<>> =>
       /\ messageHistory[1] = SystemEntry
       /\ InPairs(messageHistory)
       /\ \A k \in 2..Len(messageHistory) :
            messageHistory[k].role = "user" =>
              /\ Len(messageHistory[k].content) = 1
              /\ messageHistory[k].content[1] \in Messages
  /\ \A r \in 1..Len(requests) :
       requests[r].promise.state = "rejected" => requests[r].wrote = <<>>

\* C22: a completion that began before a later successful initializeAI call
\* never writes into the history that call created: every request that wrote
\* did so under the same count of successful initializations as it began with
C22_NoWriteAcrossInit ==
  \A r \in 1..Len(requests) :
    requests[r].wrote # <<>> => requests[r].wrote = <<requests[r].began>>


\* ------------------------------------------------- the settings form
Letters == {"a", "b", "z", "A", "Z"}
Digits == {"0", "1", "9"}

\* [a-zA-Z0-9], on the characters the keys here are made of
IsAlphanumeric(c) == c \in Letters \cup Digits

\* \s, on the characters the keys here are made of
IsWhitespace(c) == c \in {" ", "\t", "\n"}

RECURSIVE TrimStart(_)
TrimStart(s) == IF s # <<>> /\ IsWhitespace(Head(s)) THEN TrimStart(Tail(s)) ELSE s

RECURSIVE TrimEnd(_)
TrimEnd(s) ==
  IF s # <<>> /\ IsWhitespace(s[Len(s)]) THEN TrimEnd(SubSeq(s, 1, Len(s) - 1)) ELSE s

\* String.prototype.trim
Trim(s) == TrimEnd(TrimStart(s))

\* String.prototype.startsWith
StartsWith(s, prefix) == Len(s) >= Len(prefix) /\ SubSeq(s, 1, Len(prefix)) = prefix

\* key.match(/^<prefix>[a-zA-Z0-9]{n}$/) !== null
MatchesPrefixed(key, prefix, n) ==
  /\ Len(key) = Len(prefix) + n
  /\ StartsWith(key, prefix)
  /\ \A k \in Len(prefix) + 1..Len(key) : IsAlphanumeric(key[k])

\* the format ApiKeyInput asks of a Runloop key: /^ak_[a-zA-Z0-9]{21}$/
FormAccepts(key) == MatchesPrefixed(key, <<"a", "k", "_">>, 21)

\* the format App asks of a Runloop key: /^rl_[a-zA-Z0-9]{32}$/
AppAccepts(key) == MatchesPrefixed(key, <<"r", "l", "_">>, 32)

RECURSIVE Repeat(_, _)
Repeat(c, n) == IF n = 0 THEN <<>> ELSE <<c>> \o Repeat(c, n - 1)

\* what the user types into the AI key field
AiKeyInputs == {<<>>, <<"s", "k", "-", "1">>, <<"k", "e", "y">>}

\* what the user types into the Runloop key field: nothing, keys of either
\* format, keys of one format's prefix with the other's length, and keys of
\* the form's format that are too short, padded or not alphanumeric
RunloopKeyInputs ==
  {<<>>,
   <<"a", "k", "_">> \o Repeat("a", 21),
   <<"a", "k", "_">> \o Repeat("Z", 20) \o <<"9">>,
   <<"a", "k", "_">> \o Repeat("a", 21) \o <<" ">>,
   <<"a", "k", "_">> \o Repeat("a", 20),
   <<"a", "k", "_">> \o Repeat("a", 20) \o <<"-">>,
   <<"a", "k", "_">> \o Repeat("a", 32),
   <<"r", "l", "_">> \o Repeat("a", 32),
   <<"r", "l", "_">> \o Repeat("a", 21)}

\* the form is replaced by its summary
SummaryView == ~isVisible /\ hasValidKey /\ hasValidRunloopKey

\* the effect on [hasValidKey, hasValidRunloopKey]: isVisible after a render
\* in which the two flags became validKey and validRunloopKey
AfterFlagsEffect(visible, validKey, validRunloopKey) ==
  IF <<validKey, validRunloopKey>> # <<hasValidKey, hasValidRunloopKey>>
     /\ validKey /\ validRunloopKey
  THEN FALSE
  ELSE visible

\* ApiKeyInput.handleAiKeyChange
HandleAiKeyChange(value) ==
  /\ ~SummaryView
  /\ aiApiKey' = Trim(value)
  /\ aiKeyError' = IF Trim(value) # <<>> /\ provider = "openai"
                      /\ ~StartsWith(Trim(value), <<"s", "k", "-">>)
                   THEN "OpenAI API key should start with \"sk-\""
                   ELSE ""
  /\ UNCHANGED <<hasValidKey, hasValidRunloopKey, isLoading, isProcessing, isVisible,
                 runloopApiKey, provider, runloopError, localStorage, send>>
  /\ UNCHANGED <<module, pipeline, analyses, pc, scratch, calls>>

\* ApiKeyInput.handleRunloopKeyChange
HandleRunloopKeyChange(value) ==
  /\ ~SummaryView
  /\ runloopApiKey' = Trim(value)
  /\ runloopError' = IF Trim(value) # <<>> /\ ~FormAccepts(Trim(value))
                     THEN "Runloop API key should start with \"ak_\" followed by 21 characters"
                     ELSE ""
  /\ UNCHANGED <<hasValidKey, hasValidRunloopKey, isLoading, isProcessing, isVisible,
                 aiApiKey, provider, aiKeyError, localStorage, send>>
  /\ UNCHANGED <<module, pipeline, analyses, pc, scratch, calls>>

\* ApiKeyInput.handleProviderChange
HandleProviderChange(newProvider) ==
  /\ ~SummaryView
  /\ provider' = newProvider
  /\ aiKeyError' = ""
  /\ aiApiKey' = <<>>
  /\ UNCHANGED <<hasValidKey, hasValidRunloopKey, isLoading, isProcessing, isVisible,
                 runloopApiKey, runloopError, localStorage, send>>
  /\ UNCHANGED <<module, pipeline, analyses, pc, scratch, calls>>

\* the error handleSetKeys finds in the AI key, "" if none
AiKeyProblem ==
  IF aiApiKey = <<>> THEN "AI API key is required"
  ELSE IF provider = "openai" /\ ~StartsWith(aiApiKey, <<"s", "k", "-">>)
  THEN "OpenAI API key must start with \"sk-\""
  ELSE ""

\* the error handleSetKeys finds in the Runloop key, "" if none
RunloopKeyProblem ==
  IF runloopApiKey = <<>> THEN "Runloop API key is required"
  ELSE IF ~FormAccepts(runloopApiKey)
  THEN "Runloop API key should start with \"ak_\" followed by 21 characters"
  ELSE ""

\* App.handleRunloopKeyChange: the value it sets hasValidRunloopKey to
AppRunloopKeyValid(apiKey) == AppAccepts(apiKey)

\* ApiKeyInput.handleSetKeys with the validation failing, then with the keys
\* stored and handed to App.handleApiKeyChange and App.handleRunloopKeyChange
HandleSetKeys(throws) ==
  /\ ~SummaryView
  /\ inits < MaxInits
  /\ IF AiKeyProblem # "" \/ RunloopKeyProblem # ""
     THEN /\ aiKeyError' = (IF AiKeyProblem # "" THEN AiKeyProblem ELSE aiKeyError)
          /\ runloopError' = (IF RunloopKeyProblem # "" THEN RunloopKeyProblem
                              ELSE runloopError)
          /\ UNCHANGED <<module, hasValidKey, hasValidRunloopKey, isVisible, localStorage>>
     ELSE \E after \in {initializeAI(ModuleState, provider, aiApiKey, throws)} :
            /\ localStorage' = [ai_api_key |-> <<aiApiKey>>, ai_provider |-> <<provider>>,
                                runloop_api_key |-> <<runloopApiKey>>]
            /\ config' = after.config
            /\ openaiClient' = after.openaiClient
            /\ claudeClient' = after.claudeClient
            /\ messageHistory' = after.messageHistory
            /\ inits' = (IF after.returns THEN inits + 1 ELSE inits)
            /\ hasValidKey' = after.returns
            /\ hasValidRunloopKey' = AppRunloopKeyValid(runloopApiKey)
            /\ isVisible' = AfterFlagsEffect(isVisible, after.returns,
                                             AppRunloopKeyValid(runloopApiKey))
            /\ UNCHANGED <<requests, aiKeyError, runloopError>>
  /\ UNCHANGED <<isLoading, isProcessing, aiApiKey, runloopApiKey, provider, send>>
  /\ UNCHANGED <<pipeline, analyses, pc, scratch, calls>>

\* the "Change Settings" button of the summary
ChangeSettings ==
  /\ SummaryView
  /\ isVisible' = TRUE
  /\ UNCHANGED <<hasValidKey, hasValidRunloopKey, isLoading, isProcessing, aiApiKey,
                 runloopApiKey, provider, aiKeyError, runloopError, localStorage, send>>
  /\ UNCHANGED <<module, pipeline, analyses, pc, scratch, calls>>

\* the page is loaded again: the module and the components start afresh, then
\* the mount effect of ApiKeyInput and the mount effect of App read the stored
\* keys; each of the two initializeAI calls may find its constructor throwing
Reload(throwsFirst, throwsSecond) ==
  /\ \E saved \in {localStorage} :
     \E hasAiKey \in {saved.ai_api_key # <<>> /\ saved.ai_api_key # << <<>> >>
                      /\ saved.ai_provider # <<>>} :
     \E first \in {IF hasAiKey
                   THEN initializeAI([config |-> <<>>, openaiClient |-> <<>>,
                                      claudeClient |-> <<>>, messageHistory |-> <<>>],
                                     saved.ai_provider[1], saved.ai_api_key[1], throwsFirst)
                   ELSE [config |-> <<>>, openaiClient |-> <<>>, claudeClient |-> <<>>,
                         messageHistory |-> <<>>, returns |-> FALSE]} :
     \E second \in {IF hasAiKey
                    THEN initializeAI(first, saved.ai_provider[1], saved.ai_api_key[1],
                                      throwsSecond)
                    ELSE first} :
     \E validRunloopKey \in {saved.runloop_api_key # <<>>
                             /\ saved.runloop_api_key # << <<>> >>
                             /\ AppRunloopKeyValid(saved.runloop_api_key[1])} :
       /\ config' = second.config
       /\ openaiClient' = second.openaiClient
       /\ claudeClient' = second.claudeClient
       /\ messageHistory' = second.messageHistory
       /\ requests' = <<>>
       /\ inits' = (IF first.returns THEN 1 ELSE 0) + (IF second.returns THEN 1 ELSE 0)
       /\ aiApiKey' = (IF hasAiKey THEN saved.ai_api_key[1] ELSE <<>>)
       /\ provider' = (IF hasAiKey THEN saved.ai_provider[1] ELSE "openai")
       /\ runloopApiKey' = (IF saved.runloop_api_key # <<>> THEN saved.runloop_api_key[1]
                            ELSE <<>>)
       /\ hasValidKey' = second.returns
       /\ hasValidRunloopKey' = validRunloopKey
       /\ isVisible' = ~(second.returns /\ validRunloopKey)
  /\ aiKeyError' = ""
  /\ runloopError' = ""
  /\ isLoading' = FALSE
  /\ isProcessing' = FALSE
  /\ send' = NotSending
  /\ UNCHANGED <<localStorage, pipeline, analyses, pc, scratch, calls>>

\* the origin's storage is written by something other than this form (an
\* earlier build, another tab): it then holds an AI key and a Runloop key of
\* the format App asks for
StoredElsewhere(p) ==
  /\ localStorage' = [ai_api_key |-> << <<"s", "k", "-", "1">> >>, ai_provider |-> <<p>>,
                      runloop_api_key |-> << <<"r", "l", "_">> \o Repeat("a", 32) >>]
  /\ UNCHANGED <<hasValidKey, hasValidRunloopKey, isLoading, isProcessing, isVisible,
                 aiApiKey, runloopApiKey, provider, aiKeyError, runloopError, send>>
  /\ UNCHANGED <<module, pipeline, analyses, pc, scratch, calls>>

NextSettings ==
  \/ \E value \in AiKeyInputs : HandleAiKeyChange(value)
  \/ \E value \in RunloopKeyInputs : HandleRunloopKeyChange(value)
  \/ \E newProvider \in Providers : HandleProviderChange(newProvider)
  \/ \E throws \in BOOLEAN : HandleSetKeys(throws)
  \/ ChangeSettings
  \/ \E throwsFirst \in BOOLEAN, throwsSecond \in BOOLEAN : Reload(throwsFirst, throwsSecond)
  \/ \E p \in Providers : StoredElsewhere(p)

SpecSettings == Init /\ [][NextSettings]_vars


\* the Runloop key in storage is one the form's validation lets through
StoredKeyPassedForm ==
  /\ localStorage.runloop_api_key # <<>>
  /\ FormAccepts(localStorage.runloop_api_key[1])

\* C23: a Runloop key that passes the form's validation on save ("ak_" and 21
\* alphanumeric characters) is accepted by App: once such a key is stored,
\* hasValidRunloopKey is true
C23_SavedKeyAccepted == StoredKeyPassedForm => hasValidRunloopKey


\* ------------------------------------------------- sending a message
\* error.message.includes('Invalid'), on the messages the provider functions throw
IncludesInvalid(message) ==
  message \in {"Invalid OpenAI API key", "Invalid Claude API key"}

\* App.handleSendMessage from `setIsLoading(true)` to `await getChatCompletion`
CallsGetChatCompletion(message, image) ==
  /\ isLoading' = TRUE
  /\ requests' = Append(requests, getChatCompletion(message, image))
  /\ send' = [stage |-> "getChatCompletion", image |-> image, request |-> Len(requests) + 1]

\* ChatInput.handleSubmit up to `await onSendMessage`, with App.handleSendMessage
\* up to its first await or its early return
Submit(message, image) ==
  /\ ~isProcessing
  /\ Len(requests) < MaxRequests
  /\ message # "" \/ image
  /\ isProcessing' = TRUE
  /\ IF ~hasValidKey
     THEN /\ send' = [stage |-> "returned", image |-> image, request |-> 0]
          /\ UNCHANGED <<isLoading, requests>>
     ELSE IF image
     THEN /\ send' = [stage |-> "readAsDataURL", image |-> image, request |-> 0]
          /\ UNCHANGED <<isLoading, requests>>
     ELSE CallsGetChatCompletion(message, image)
  /\ UNCHANGED <<config, openaiClient, claudeClient, messageHistory, inits>>
  /\ UNCHANGED <<hasValidKey, hasValidRunloopKey, isVisible, aiApiKey, runloopApiKey,
                 provider, aiKeyError, runloopError, localStorage>>
  /\ UNCHANGED <<pipeline, analyses, pc, scratch, calls>>

\* the reader of handleSendMessage fires load: the promise resolves and the
\* handler goes on to call getChatCompletion
AppReaderOnLoad(message) ==
  /\ send.stage = "readAsDataURL"
  /\ CallsGetChatCompletion(message, TRUE)
  /\ UNCHANGED <<config, openaiClient, claudeClient, messageHistory, inits>>
  /\ UNCHANGED <<hasValidKey, hasValidRunloopKey, isProcessing, isVisible, aiApiKey,
                 runloopApiKey, provider, aiKeyError, runloopError, localStorage>>
  /\ UNCHANGED <<pipeline, analyses, pc, scratch, calls>>

\* the reader of handleSendMessage fires error: no handler is attached, the
\* promise stays pending
AppReaderOnError ==
  /\ send.stage = "readAsDataURL"
  /\ send' = [send EXCEPT !.stage = "readFailed"]
  /\ UNCHANGED <<module, hasValidKey, hasValidRunloopKey, isLoading, isProcessing,
                 isVisible, aiApiKey, runloopApiKey, provider, aiKeyError, runloopError,
                 localStorage>>
  /\ UNCHANGED <<pipeline, analyses, pc, scratch, calls>>

\* App.handleSendMessage after `await getChatCompletion`: the try, the catch
\* and the finally, then the return
SendResumes ==
  /\ send.stage = "getChatCompletion"
  /\ requests[send.request].promise.state # "pending"
  /\ IF requests[send.request].promise.state = "rejected"
        /\ IncludesInvalid(requests[send.request].promise.error.message)
     THEN /\ hasValidKey' = FALSE
          /\ localStorage' = [localStorage EXCEPT !.ai_api_key = <<>>, !.ai_provider = <<>>]
     ELSE UNCHANGED <<hasValidKey, localStorage>>
  /\ isLoading' = FALSE
  /\ send' = [send EXCEPT !.stage = "returned"]
  /\ UNCHANGED <<module, hasValidRunloopKey, isProcessing, isVisible, aiApiKey,
                 runloopApiKey, provider, aiKeyError, runloopError>>
  /\ UNCHANGED <<pipeline, analyses, pc, scratch, calls>>

\* ChatInput.handleSubmit after `await onSendMessage`, through its finally
SubmitResumes ==
  /\ send.stage = "returned"
  /\ isProcessing' = FALSE
  /\ send' = NotSending
  /\ UNCHANGED <<module, hasValidKey, hasValidRunloopKey, isLoading, isVisible, aiApiKey,
                 runloopApiKey, provider, aiKeyError, runloopError, localStorage>>
  /\ UNCHANGED <<pipeline, analyses, pc, scratch, calls>>

\* the application as loaded, or after the form saved an AI key for provider p
\* and a Runloop key
InitApp ==
  /\ pc = "idle"
  /\ file = <<>>
  /\ events = <<>>
  /\ awaited = Pending
  /\ img = <<>>
  /\ result = Pending
  /\ canvas = <<>>
  /\ totalPixels = <<>>
  /\ colorAnalysis = <<>>
  /\ edgeAnalysis = <<>>
  /\ patternAnalysis = <<>>
  /\ contentAnalysis = <<>>
  /\ scratch = NoScratch
  /\ calls = 0
  /\ requests = <<>>
  /\ isLoading = FALSE
  /\ isProcessing = FALSE
  /\ isVisible = TRUE
  /\ hasValidRunloopKey = FALSE
  /\ aiKeyError = ""
  /\ runloopError = ""
  /\ send = NotSending
  /\ \E saved \in BOOLEAN, p \in Providers :
     \E key \in {<<"s", "k", "-", "1">>}, runloopKey \in {<<"a", "k", "_">> \o Repeat("a", 21)} :
     \E after \in {initializeAI([config |-> <<>>, openaiClient |-> <<>>,
                                 claudeClient |-> <<>>, messageHistory |-> <<>>],
                                p, key, FALSE)} :
       /\ provider = p
       /\ aiApiKey = key
       /\ runloopApiKey = runloopKey
       /\ IF saved
          THEN /\ config = after.config
               /\ openaiClient = after.openaiClient
               /\ claudeClient = after.claudeClient
               /\ messageHistory = after.messageHistory
               /\ inits = 1
               /\ hasValidKey = TRUE
               /\ localStorage = [ai_api_key |-> <<key>>, ai_provider |-> <<p>>,
                                  runloop_api_key |-> <<runloopKey>>]
          ELSE /\ InitModule
               /\ hasValidKey = FALSE
               /\ localStorage = EmptyStorage

NextApp ==
  \/ \E message \in Messages \cup {""}, image \in BOOLEAN : Submit(message, image)
  \/ \E message \in Messages \cup {""} : AppReaderOnLoad(message)
  \/ AppReaderOnError
  \/ \E r \in 1..MaxRequests, imageAnalysis \in ImageAnalyses : ProcessImageSettles(r, imageAnalysis)
  \/ \E r \in 1..MaxRequests, response \in Responses : CreateSettles(r, response)
  \/ SendResumes
  \/ SubmitResumes
  \/ \E throws \in BOOLEAN : HandleSetKeys(throws)

SpecApp == InitApp /\ [][NextApp]_vars

\* every file read fires load or error, processImage resolves, every provider
\* call settles, and a handler whose awaited promise settled resumes
FairSpecApp ==
  /\ SpecApp
  /\ WF_vars((\E message \in Messages \cup {""} : AppReaderOnLoad(message)) \/ AppReaderOnError)
  /\ WF_vars(\E r \in 1..MaxRequests, imageAnalysis \in ImageAnalyses :
               ProcessImageSettles(r, imageAnalysis))
  /\ WF_vars(\E r \in 1..MaxRequests, response \in Responses : CreateSettles(r, response))
  /\ WF_vars(SendResumes)
  /\ WF_vars(SubmitResumes)

\* C24: every submit completes: under the fairness of FairSpecApp, whenever
\* isProcessing is true it becomes false again, and so does isLoading, also
\* when reading or analysing the attached image fails
C24_EverySubmitCompletes ==
  /\ isProcessing ~> ~isProcessing
  /\ isLoading ~> ~isLoading

====
